---- MODULE Spec2Model ----
(***************************************************************************)
(* Gasless (meta-transaction) transfer flow of the EcoToken dApp:          *)
(*   - the relay service  (src/api/relay-transfer.ts: handler, and the     *)
(*     framework-neutral example relayTransfer),                           *)
(*   - the two client components that build, sign and post a transfer      *)
(*     (EcoGaslessTransfer.tsx, GaslessTransferForm.tsx),                   *)
(*   - the EcoMetaTransfer contract as far as the relay uses it            *)
(*     (nonces, transferWithSig).                                          *)
(*                                                                         *)
(* JavaScript values are tagged records, so that the truthiness tests of   *)
(* the code (!amount, nonce === undefined, !deadline) keep their meaning:  *)
(*   [t |-> "undefined"]            the field is absent                    *)
(*   [t |-> "number", n |-> 3]      a number                               *)
(*   [t |-> "numstr", n |-> 3]      the decimal string "3"                 *)
(*   [t |-> "string", s |-> "x"]    any other string                       *)
(*   [t |-> "sig", ...]             a 65-byte signature string             *)
(*   [t |-> "vrs", ...]             a split signature object {v, r, s}     *)
(*   [t |-> "object"]               any other object                       *)
(***************************************************************************)
EXTENDS Integers, Sequences, FiniteSets, TLC

(***************************************************************************)
(* Bounds of the model.                                                    *)
(***************************************************************************)
\* seconds of the clock: FirstSecond .. MaxTime
FirstSecond == 2

Seconds == 1

MaxTime == FirstSecond + Seconds

\* the contract's nonces stop advancing here
MaxNonce == 2

\* concurrently running invocations of the relay
Handlers == {1, 2}

(***************************************************************************)
(* Program constants.                                                      *)
(***************************************************************************)
SEPOLIA == 11155111

\* the id of any other chain the wallet can be on
OTHER_CHAIN == SEPOLIA + 1

ECO_META_CONTRACT == "0xB4E765140cefB7E14B97899Ab573C1e27b5E12b6"

\* CONTRACT_ADDRESS of ../constants/contract (the ECO token), a file that is
\* not part of the sources; only its being a name of its own is used.
CONTRACT_ADDRESS == "CONTRACT_ADDRESS"

(***************************************************************************)
(* JavaScript values.                                                      *)
(***************************************************************************)
Undefined == [t |-> "undefined"]

Num(n) == [t |-> "number", n |-> n]

NumStr(n) == [t |-> "numstr", n |-> n]

Str(s) == [t |-> "string", s |-> s]

\* !x of JavaScript: undefined, 0 and "" are falsy; every other value
\* (the string "0" and every object included) is truthy.
Falsy(x) ==
  \/ x.t = "undefined"
  \/ x.t = "number" /\ x.n = 0
  \/ x.t = "string" /\ x.s = ""

(***************************************************************************)
(* Addresses.  Two accounts, each written in lower case or with the        *)
(* EIP-55 checksum capitals; one string that is no address.                *)
(***************************************************************************)
Accounts == {"a", "b"}

AddrLower == [a |-> "0xaa", b |-> "0xbb"]

AddrChecksum == [a |-> "0xAa", b |-> "0xBb"]

BadAddress == "0xZZ"

\* the address a signature over other data recovers to: no account's
JunkAddress == "0x7f"

AddressStrings == {AddrLower[a] : a \in Accounts} \cup {AddrChecksum[a] : a \in Accounts}

\* String.prototype.toLowerCase on the strings of the model
ToLowerCase(s) ==
  IF \E a \in Accounts : s = AddrChecksum[a]
  THEN LET acct == CHOOSE a \in Accounts : s = AddrChecksum[a] IN AddrLower[acct]
  ELSE IF s = BadAddress THEN "0xzz" ELSE s

\* ethers.isAddress: a string that is a well-formed address
IsAddress(x) == x.t = "string" /\ x.s \in AddressStrings

\* ethers.getAddress: the checksummed form
GetAddress(s) ==
  LET acct == CHOOSE a \in Accounts : ToLowerCase(s) = AddrLower[a] IN AddrChecksum[acct]

(***************************************************************************)
(* EIP-712 typed data.                                                     *)
(***************************************************************************)
\* relay-transfer.ts DOMAIN (the example relayTransfer has the same); DOMAIN
\* is an operator of TLA+, hence the longer name
RELAY_DOMAIN ==
  [name |-> "EcoMetaTransfer", version |-> "1", chainId |-> SEPOLIA,
   verifyingContract |-> ECO_META_CONTRACT]

\* relay-transfer.ts TYPES (the example relayTransfer has the same)
TYPES ==
  << [name |-> "from", type |-> "address"],
     [name |-> "to", type |-> "address"],
     [name |-> "amount", type |-> "uint256"],
     [name |-> "nonce", type |-> "uint256"],
     [name |-> "deadline", type |-> "uint256"] >>

\* a value the encoder accepts as uint256: a number or a decimal string
IsUint(x) == x.t \in {"number", "numstr"} /\ x.n >= 0

\* the encoder throws on a field that is no address / no uint256
Encodable(value) ==
  /\ IsAddress(value.from) /\ IsAddress(value.to)
  /\ IsUint(value.amount) /\ IsUint(value.nonce) /\ IsUint(value.deadline)

\* the encoded struct: addresses as their 20 bytes (letter case is lost),
\* numbers and decimal strings as the integer they denote
Encode(value) ==
  [from |-> ToLowerCase(value.from.s), to |-> ToLowerCase(value.to.s),
   amount |-> value.amount.n, nonce |-> value.nonce.n,
   deadline |-> value.deadline.n]

\* signer.signTypedData(domain, types, value) by the key of account a
SignTypedData(a, domain, types, value) ==
  [t |-> "sig", signer |-> a, domain |-> domain, types |-> types,
   msg |-> Encode(value)]

\* a signature argument the library can parse: a 65-byte string or {v,r,s}
IsSignatureLike(x) == x.t \in {"sig", "vrs"}

VerifyThrows(value, signature) ==
  ~IsSignatureLike(signature) \/ ~Encodable(value)

\* ethers.verifyTypedData: the key that signed exactly this digest, and an
\* unrelated address for a signature over any other digest
VerifyTypedData(domain, types, value, signature) ==
  IF /\ signature.domain = domain
     /\ signature.types = types
     /\ signature.msg = Encode(value)
  THEN AddrChecksum[signature.signer]
  ELSE JunkAddress

(***************************************************************************)
(* Request bodies that reach the relay.  A body is what the destructuring  *)
(* of req.body yields: a value (possibly undefined) for each of the six    *)
(* names.                                                                  *)
(***************************************************************************)
Other(a) == CHOOSE b \in Accounts : b # a

TransferValue(body) ==
  [from |-> body.from, to |-> body.to, amount |-> body.amount,
   nonce |-> body.nonce, deadline |-> body.deadline]

\* a request of account a, signed by a under the relay's domain
WellSigned(a, fromString, n, d) ==
  LET value == [from |-> Str(fromString), to |-> Str(AddrLower[Other(a)]),
                amount |-> NumStr(1), nonce |-> Num(n), deadline |-> Num(d)]
  IN  [from |-> value.from, to |-> value.to, amount |-> value.amount,
       nonce |-> value.nonce, deadline |-> value.deadline,
       signature |-> SignTypedData(a, RELAY_DOMAIN, TYPES, value)]

Deadlines == (FirstSecond - 1) .. (MaxTime + 1)

WellSignedBodies ==
  { WellSigned("a", AddrLower["a"], n, d) : n \in 0 .. (MaxNonce - 1), d \in Deadlines }
  \cup { WellSigned("a", AddrChecksum["a"], 0, MaxTime + 1),
         WellSigned("b", AddrLower["b"], 0, MaxTime + 1) }

\* one well-signed request, and everything that can be wrong with it
Sample == WellSigned("a", AddrLower["a"], 0, MaxTime + 1)

OtherDomain == [RELAY_DOMAIN EXCEPT !.name = "EcoToken", !.verifyingContract = CONTRACT_ADDRESS]

DefectiveBodies ==
  { [Sample EXCEPT !.from = Undefined],
    [Sample EXCEPT !.from = Str(BadAddress)],
    [Sample EXCEPT !.to = Undefined],
    [Sample EXCEPT !.to = Str(BadAddress)],
    [Sample EXCEPT !.amount = Undefined],
    [Sample EXCEPT !.amount = Str("")],
    [Sample EXCEPT !.amount = Str("abc")],
    [Sample EXCEPT !.amount = NumStr(2)],
    [Sample EXCEPT !.nonce = Undefined],
    [Sample EXCEPT !.nonce = NumStr(0)],
    [Sample EXCEPT !.nonce = Num(1)],
    [Sample EXCEPT !.deadline = Undefined],
    [Sample EXCEPT !.deadline = Num(0)],
    [Sample EXCEPT !.deadline = Num(MaxTime)],
    [Sample EXCEPT !.signature = Undefined],
    [Sample EXCEPT !.signature = Str("")],
    [Sample EXCEPT !.signature = Str("0x12")],
    [Sample EXCEPT !.signature = SignTypedData("b", RELAY_DOMAIN, TYPES, TransferValue(Sample))],
    [Sample EXCEPT !.signature = SignTypedData("a", OtherDomain, TYPES, TransferValue(Sample))],
    [Sample EXCEPT !.signature =
        SignTypedData("a", [RELAY_DOMAIN EXCEPT !.chainId = OTHER_CHAIN], TYPES, TransferValue(Sample))],
    [Sample EXCEPT !.signature = [Sample.signature EXCEPT !.t = "vrs"]],
    \* the body GaslessTransferForm posts: {transferRequest, signature, contractAddress}
    [from |-> Undefined, to |-> Undefined, amount |-> Undefined, nonce |-> Undefined,
     deadline |-> Undefined, signature |-> [Sample.signature EXCEPT !.t = "vrs"]] }

Bodies == WellSignedBodies \cup DefectiveBodies

(***************************************************************************)
(* Responses.  handler answers with an HTTP status and a JSON body;        *)
(* relayTransfer returns the object {success, txHash?, error?} and leaves  *)
(* the status to its caller (status 0 here).  txHash 0: no txHash;         *)
(* error "": no error field.                                               *)
(***************************************************************************)
Implementations == {"handler", "relayTransfer"}

\* res.json({error}) without res.status(...): the status stays 200
FailureWithoutStatus(implementation, status, error) ==
  IF implementation = "handler"
  THEN [status |-> 200, success |-> "absent", error |-> error, txHash |-> 0]
  ELSE [status |-> 0, success |-> "false", error |-> error, txHash |-> 0]

Failure(implementation, status, error) ==
  IF implementation = "handler"
  THEN [status |-> status, success |-> "absent", error |-> error, txHash |-> 0]
  ELSE [status |-> 0, success |-> "false", error |-> error, txHash |-> 0]

Success(implementation, hash) ==
  IF implementation = "handler"
  THEN [status |-> 200, success |-> "true", error |-> "", txHash |-> hash]
  ELSE [status |-> 0, success |-> "true", error |-> "", txHash |-> hash]

\* the hash of the transaction that invocation h sends
TxHash(h) == h

(***************************************************************************)
(* Errors thrown by the provider, by contract.transferWithSig and by       *)
(* tx.wait; String.prototype.includes on their messages.                   *)
(***************************************************************************)
ThrownErrors ==
  { [code |-> "INSUFFICIENT_FUNDS", message |-> "insufficient funds for intrinsic transaction cost"],
    [code |-> "UNPREDICTABLE_GAS_LIMIT", message |-> "cannot estimate gas"],
    [code |-> "CALL_EXCEPTION", message |-> "execution reverted: ECO"],
    [code |-> "CALL_EXCEPTION", message |-> "transaction failed"],
    [code |-> "ACTION_REJECTED", message |-> "user rejected action"],
    [code |-> "NETWORK_ERROR", message |-> "could not detect network"],
    [code |-> "UNKNOWN_ERROR", message |-> ""] }

\* the faults of the provider while a client is served
ClientFaults ==
  { e \in ThrownErrors :
      e.message \in {"insufficient funds for intrinsic transaction cost",
                     "execution reverted: ECO", "could not detect network"} }

Includes(message, pattern) ==
  \/ pattern = "execution reverted" /\ message = "execution reverted: ECO"
  \/ pattern = "user rejected" /\ message = "user rejected action"

\* what verifyTypedData throws on an unparsable signature or value
VerifyError == [code |-> "INVALID_ARGUMENT", message |-> "invalid BytesLike value"]

(***************************************************************************)
(* Text and numbers of the client forms.  A text is a sequence of          *)
(* characters.  The token has WeiDecimals decimals (18 in the program,     *)
(* fewer here), and a JavaScript number is held exactly, as a multiple of  *)
(* 10^-FloatDigits: every text of the model has at most FloatDigits        *)
(* fraction digits and few significant digits, where a double is exact.    *)
(***************************************************************************)
WeiDecimals == 1

FloatDigits == WeiDecimals + 1

RECURSIVE Pow10(_)
Pow10(n) == IF n = 0 THEN 1 ELSE 10 * Pow10(n - 1)

DigitValue ==
  [c \in {"0", "1", "2", "3", "4", "5", "6", "7", "8", "9"} |->
     CASE c = "0" -> 0 [] c = "1" -> 1 [] c = "2" -> 2 [] c = "3" -> 3 [] c = "4" -> 4
       [] c = "5" -> 5 [] c = "6" -> 6 [] c = "7" -> 7 [] c = "8" -> 8 [] c = "9" -> 9]

IsDigit(c) == c \in DOMAIN DigitValue

DigitChar(d) == CHOOSE c \in DOMAIN DigitValue : DigitValue[c] = d

\* the length of the run of digits of text that starts at index i
RECURSIVE DigitRun(_, _)
DigitRun(text, i) ==
  IF i <= Len(text) /\ IsDigit(text[i]) THEN 1 + DigitRun(text, i + 1) ELSE 0

\* the number written by the n digits of text from index i on
RECURSIVE DigitsValue(_, _, _)
DigitsValue(text, i, n) ==
  IF n = 0 THEN 0
  ELSE 10 * DigitsValue(text, i, n - 1) + DigitValue[text[i + n - 1]]

NaN == [nan |-> TRUE, v |-> 0]

\* parseFloat: the value of the longest prefix that is a decimal literal
\* (sign, digits, fraction, exponent), NaN when there is none
ParseFloat(text) ==
  LET neg == Len(text) >= 1 /\ text[1] = "-"
      i0 == IF neg THEN 2 ELSE 1
      intLen == DigitRun(text, i0)
      dot == i0 + intLen
      hasDot == dot <= Len(text) /\ text[dot] = "."
      fracLen == IF hasDot THEN DigitRun(text, dot + 1) ELSE 0
      ex == IF hasDot THEN dot + 1 + fracLen ELSE dot
      expLen == IF ex <= Len(text) /\ text[ex] = "e" THEN DigitRun(text, ex + 1) ELSE 0
      exponent == DigitsValue(text, ex + 1, expLen)
      mantissa == DigitsValue(text, i0, intLen) * Pow10(FloatDigits)
                  + DigitsValue(text, dot + 1, fracLen) * Pow10(FloatDigits - fracLen)
      magnitude == mantissa * Pow10(exponent)
  IN  IF intLen + fracLen = 0 THEN NaN
      ELSE [nan |-> FALSE, v |-> IF neg THEN 0 - magnitude ELSE magnitude]

\* ethers.parseEther = parseUnits(text, 18): the whole text must match
\* /^(-?)([0-9]*)\.?([0-9]*)$/ with at least one digit, and digits after
\* the token's decimals must be zeros; it throws otherwise
ParseEther(text) ==
  LET neg == Len(text) >= 1 /\ text[1] = "-"
      i0 == IF neg THEN 2 ELSE 1
      intLen == DigitRun(text, i0)
      dot == i0 + intLen
      hasDot == dot <= Len(text) /\ text[dot] = "."
      fracLen == IF hasDot THEN DigitRun(text, dot + 1) ELSE 0
      end == IF hasDot THEN dot + 1 + fracLen ELSE dot
      kept == IF fracLen < WeiDecimals THEN fracLen ELSE WeiDecimals
      excess == DigitsValue(text, dot + 1 + kept, fracLen - kept)
      magnitude == DigitsValue(text, i0, intLen) * Pow10(WeiDecimals)
                   + DigitsValue(text, dot + 1, kept) * Pow10(WeiDecimals - kept)
  IN  IF end # Len(text) + 1 \/ intLen + fracLen = 0 \/ excess # 0
      THEN [ok |-> FALSE, wei |-> 0]
      ELSE [ok |-> TRUE, wei |-> IF neg THEN 0 - magnitude ELSE magnitude]

\* the decimal digits of a natural number
RECURSIVE IntToText(_)
IntToText(n) ==
  IF n < 10 THEN <<DigitChar(n)>> ELSE Append(IntToText(n \div 10), DigitChar(n % 10))

\* the k digits of n, zero-padded on the left
RECURSIVE Padded(_, _)
Padded(n, k) ==
  IF k = 0 THEN << >> ELSE Append(Padded(n \div 10, k - 1), DigitChar(n % 10))

\* without trailing zeros, but never shorter than one digit
RECURSIVE StripZeros(_)
StripZeros(text) ==
  IF Len(text) > 1 /\ text[Len(text)] = "0"
  THEN StripZeros(SubSeq(text, 1, Len(text) - 1))
  ELSE text

\* ethers.formatEther: "1.5", "1.0", "0.1"
FormatEther(wei) ==
  IntToText(wei \div Pow10(WeiDecimals)) \o <<".">>
    \o StripZeros(Padded(wei % Pow10(WeiDecimals), WeiDecimals))

(***************************************************************************)
(* The relay: handler (relay-transfer.ts) and relayTransfer (the example). *)
(***************************************************************************)
NoResponse == [status |-> -1, success |-> "absent", error |-> "", txHash |-> 0]

\* the catch block at the end of either implementation
Catch(implementation, err) ==
  IF err.code = "INSUFFICIENT_FUNDS"
  THEN Failure(implementation, 500, "Relayer has insufficient funds for gas")
  ELSE IF err.code = "UNPREDICTABLE_GAS_LIMIT"
  THEN Failure(implementation, 400,
               "Transaction would fail (likely insufficient token balance or approval)")
  ELSE IF Includes(err.message, "execution reverted")
  THEN Failure(implementation, 400, "Transaction reverted by contract")
  ELSE IF implementation = "handler" /\ Includes(err.message, "user rejected")
  THEN Failure(implementation, 400, "Transaction was rejected by user")
  ELSE Failure(implementation, 500,
               IF err.message # "" THEN err.message
               ELSE IF implementation = "handler" THEN "Failed to relay transaction"
               ELSE "Internal server error")

MissingRequiredFields(body) ==
  \/ Falsy(body.from) \/ Falsy(body.to) \/ Falsy(body.amount)
  \/ body.nonce = Undefined
  \/ Falsy(body.deadline) \/ Falsy(body.signature)

\* the address test with && for ||: one well-formed address is enough
InvalidAddressFormatBoth(body) == ~IsAddress(body.from) /\ ~IsAddress(body.to)

InvalidAddressFormat(body) == ~IsAddress(body.from) \/ ~IsAddress(body.to)

\* the deadline test with the comparison turned round
DeadlineHasPassedReversed(deadline, currentTime) == deadline.n > currentTime

\* if (deadline < currentTime)
DeadlineHasPassed(deadline, currentTime) == deadline.n < currentTime

\* the signer test without toLowerCase on either side
SignerDiffersExact(body) ==
  VerifyTypedData(RELAY_DOMAIN, TYPES, TransferValue(body), body.signature) # body.from.s

\* recovered.toLowerCase() !== from.toLowerCase()
SignerDiffers(body) ==
  ToLowerCase(VerifyTypedData(RELAY_DOMAIN, TYPES, TransferValue(body), body.signature))
    # ToLowerCase(body.from.s)

\* the nonce test that only refuses nonces above the current one
NonceDiffersAbove(currentNonce, nonce) == ~(nonce.t = "number" /\ nonce.n <= currentNonce)

\* Number(currentNonce) !== nonce : strict inequality, so that a nonce that
\* is not of type number differs from every Number
NonceDiffers(currentNonce, nonce) == ~(nonce.t = "number" /\ nonce.n = currentNonce)

\* The part of an invocation that runs before its first await: the checks
\* passed, in order, and the response if one of them fails.
SyncChecks(implementation, method, body, currentTime) ==
  IF implementation = "handler" /\ method # "POST"
  THEN [checks |-> << >>, response |-> Failure(implementation, 405, "Method not allowed")]
  ELSE IF MissingRequiredFields(body)
  THEN [checks |-> << >>, response |-> Failure(implementation, 400, "Missing required fields")]
  ELSE IF InvalidAddressFormat(body)
  THEN [checks |-> <<"fields">>,
        response |-> Failure(implementation, 400, "Invalid address format")]
  ELSE IF DeadlineHasPassed(body.deadline, currentTime)
  THEN [checks |-> <<"fields", "address">>,
        response |-> Failure(implementation, 400, "Transfer deadline has passed")]
  ELSE IF VerifyThrows(TransferValue(body), body.signature)
  THEN [checks |-> <<"fields", "address", "deadline">>,
        response |-> IF implementation = "handler"
                     THEN Failure(implementation, 400, "Signature verification failed")
                     ELSE Catch(implementation, VerifyError)]
  ELSE IF SignerDiffers(body)
  THEN [checks |-> <<"fields", "address", "deadline">>,
        response |-> Failure(implementation, 400, "Invalid signature")]
  ELSE [checks |-> <<"fields", "address", "deadline", "signature">>,
        response |-> NoResponse]

(***************************************************************************)
(* State.                                                                  *)
(***************************************************************************)
VARIABLES
  now,        \* Math.floor(Date.now() / 1000)
  nonces,     \* the contract's nonces(owner)
  impl,       \* the implementation the relay runs
  hpc,        \* position of each invocation
  hreq,       \* its method and body
  htime,      \* the second its deadline check ran in
  hchecks,    \* the checks and steps it has passed, in order
  hnonce,     \* its const currentNonce, as a Number; -1 before the read
  hbefore,    \* the invocations whose transfer was accepted before it began
  hresp,      \* the responses it has sent, in order
  hcalled,    \* it has called contract.transferWithSig
  htx,        \* the transaction it sent: none, pending, accepted, reverted
  hprior      \* the invocations whose transfer was accepted before its nonce read

relayVars == <<now, nonces, impl, hpc, hreq, htime, hchecks, hnonce, hbefore, hresp,
               hcalled, htx, hprior>>


NoRequest == [method |-> "none"]

RelayInit ==
  /\ now = FirstSecond
  /\ nonces = [a \in Accounts |-> 0]
  /\ impl \in Implementations
  /\ hpc = [h \in Handlers |-> "idle"]
  /\ hreq = [h \in Handlers |-> NoRequest]
  /\ htime = [h \in Handlers |-> 0]
  /\ hchecks = [h \in Handlers |-> << >>]
  /\ hnonce = [h \in Handlers |-> -1]
  /\ hbefore = [h \in Handlers |-> {}]
  /\ hresp = [h \in Handlers |-> << >>]
  /\ hcalled = [h \in Handlers |-> FALSE]
  /\ htx = [h \in Handlers |-> "none"]
  /\ hprior = [h \in Handlers |-> {}]

\* the account a well-formed from string names
AccountOf(s) == CHOOSE a \in Accounts : AddrLower[a] = ToLowerCase(s)

Accepted == {h \in Handlers : htx[h] = "accepted"}

\* the invocation answers and ends
Respond(h, response) ==
  /\ hresp' = [hresp EXCEPT ![h] = Append(@, response)]
  /\ hpc' = [hpc EXCEPT ![h] = "done"]

\* time passes
Tick ==
  /\ now < MaxTime
  /\ now' = now + 1
  /\ UNCHANGED <<nonces, impl, hpc, hreq, htime, hchecks, hnonce, hbefore, hresp, hcalled,
                 htx, hprior>>

\* a clock that is one second behind
CurrentTimeBehind == now - 1

\* const currentTime = Math.floor(Date.now() / 1000)
CurrentTime == now

\* A request arrives; the invocation runs up to its first await
\* (contract.nonces), or answers.
Receive(h, method, body) ==
  /\ hpc[h] = "idle"
  /\ impl = "relayTransfer" => method = "POST"
  /\ LET r == SyncChecks(impl, method, body, CurrentTime) IN
       /\ hreq' = [hreq EXCEPT ![h] = [method |-> method, body |-> body]]
       /\ htime' = [htime EXCEPT ![h] = IF Len(r.checks) >= 2 THEN now ELSE 0]
       /\ hchecks' = [hchecks EXCEPT ![h] = r.checks]
       /\ hbefore' = [hbefore EXCEPT ![h] = Accepted]
       /\ IF r.response = NoResponse
          THEN hpc' = [hpc EXCEPT ![h] = "nonce"] /\ UNCHANGED hresp
          ELSE Respond(h, r.response)
  /\ UNCHANGED <<now, nonces, impl, hnonce, hcalled, htx, hprior>>

\* await contract.nonces(from) settles: the read fails, or the nonce is
\* compared with the supplied one
NonceRead(h, readOk) ==
  /\ hpc[h] = "nonce"
  /\ hprior' = [hprior EXCEPT ![h] = Accepted]
  /\ LET body == hreq[h].body
         currentNonce == nonces[AccountOf(body.from.s)] IN
       IF ~readOk
       THEN /\ Respond(h, Failure(impl, 500, "Failed to verify nonce"))
            /\ UNCHANGED <<hchecks, hnonce>>
       ELSE /\ hnonce' = [hnonce EXCEPT ![h] = currentNonce]
            /\ IF NonceDiffers(currentNonce, body.nonce)
               THEN Respond(h, Failure(impl, 400, "Invalid nonce")) /\ UNCHANGED hchecks
               ELSE /\ hchecks' = [hchecks EXCEPT ![h] = Append(@, "nonce")]
                    /\ hpc' = [hpc EXCEPT ![h] = "send"]
                    /\ UNCHANGED hresp
  /\ UNCHANGED <<now, nonces, impl, hreq, htime, hbefore, hcalled, htx>>

\* contract.transferWithSig(...) is called and throws (gas estimation, funds,
\* network): nothing is sent
SendThrows(h, err) ==
  /\ hpc[h] = "send"
  /\ hcalled' = [hcalled EXCEPT ![h] = TRUE]
  /\ Respond(h, Catch(impl, err))
  /\ UNCHANGED <<now, nonces, impl, hreq, htime, hchecks, hnonce, hbefore, htx, hprior>>

\* contract.transferWithSig(...) is called and the transaction is sent
Send(h) ==
  /\ hpc[h] = "send"
  /\ hcalled' = [hcalled EXCEPT ![h] = TRUE]
  /\ htx' = [htx EXCEPT ![h] = "pending"]
  /\ hpc' = [hpc EXCEPT ![h] = "wait"]
  /\ hchecks' = [hchecks EXCEPT ![h] = Append(@, "sent")]
  /\ UNCHANGED <<now, nonces, impl, hreq, htime, hnonce, hbefore, hresp, hprior>>

\* EcoMetaTransfer.transferWithSig as the relay relies on it: the transfer
\* is accepted only with the owner's current nonce and before the deadline,
\* and acceptance advances the nonce; it may revert for other reasons
\* (balance, allowance)
ContractAccepts(body) ==
  /\ nonces[AccountOf(body.from.s)] = body.nonce.n
  /\ now <= body.deadline.n

\* the transaction of invocation h is included in a block
Mine(h, fundsOk) ==
  /\ htx[h] = "pending"
  /\ LET body == hreq[h].body
         a == AccountOf(body.from.s) IN
       IF ContractAccepts(body) /\ fundsOk /\ nonces[a] < MaxNonce
       THEN /\ nonces' = [nonces EXCEPT ![a] = @ + 1]
            /\ htx' = [htx EXCEPT ![h] = "accepted"]
       ELSE /\ htx' = [htx EXCEPT ![h] = "reverted"]
            /\ UNCHANGED nonces
  /\ UNCHANGED <<now, impl, hpc, hreq, htime, hchecks, hnonce, hbefore, hresp, hcalled, hprior>>

\* await tx.wait() resolves with the receipt of an accepted transfer
WaitResolves(h) ==
  /\ hpc[h] = "wait"
  /\ htx[h] = "accepted"
  /\ Respond(h, Success(impl, TxHash(h)))
  /\ hchecks' = [hchecks EXCEPT ![h] = Append(@, "confirmed")]
  /\ UNCHANGED <<now, nonces, impl, hreq, htime, hnonce, hbefore, hcalled, htx, hprior>>

\* await tx.wait() throws: the transaction reverted, or the provider failed
WaitThrows(h, err) ==
  /\ hpc[h] = "wait"
  /\ htx[h] = "reverted" => err.code = "CALL_EXCEPTION"
  /\ htx[h] # "reverted" => err.code \in {"NETWORK_ERROR", "UNKNOWN_ERROR"}
  /\ Respond(h, Catch(impl, err))
  /\ UNCHANGED <<now, nonces, impl, hreq, htime, hchecks, hnonce, hbefore, hcalled, htx, hprior>>

(***************************************************************************)
(* The client components EcoGaslessTransfer and GaslessTransferForm.       *)
(***************************************************************************)
Variants == {"EcoGaslessTransfer", "GaslessTransferForm"}

\* the validity window each variant adds to the current time
ECO_VALIDITY == 900

FORM_VALIDITY == 3600

Null == "null"

\* what the user can have typed into the recipient field (type="text")
RecipientInputs == {"", AddrLower["b"], BadAddress}

\* what the amount field (type="number") can hold: the empty text or a valid
\* floating-point number; with each text the number it denotes, num / den
AmountInputs ==
  { [text |-> << >>, number |-> FALSE, num |-> 0, den |-> 1],
    [text |-> <<"0">>, number |-> TRUE, num |-> 0, den |-> 1],
    [text |-> <<"1">>, number |-> TRUE, num |-> 1, den |-> 1],
    [text |-> <<"0", ".", "0", "5">>, number |-> TRUE, num |-> 5, den |-> 100],
    [text |-> <<"1", "e", "1">>, number |-> TRUE, num |-> 10, den |-> 1] }

\* token balances the chain can report, in wei
BalanceChoices == {0, 15 * Pow10(WeiDecimals - 1)}

\* validateAddress
ValidateAddress(recipient) == IsAddress(Str(recipient))

\* validateAmount with >= 0 for > 0
ValidateAmountNonNegative(amountText, balanceText) ==
  LET numAmount == ParseFloat(amountText)
      balance == ParseFloat(balanceText)
  IN  /\ ~numAmount.nan
      /\ numAmount.v >= 0
      /\ ~balance.nan /\ numAmount.v <= balance.v

\* validateAmount: !isNaN(numAmount) && numAmount > 0 &&
\*                 numAmount <= parseFloat(tokenBalance)
ValidateAmount(amountText, balanceText) ==
  LET numAmount == ParseFloat(amountText)
      balance == ParseFloat(balanceText)
  IN  /\ ~numAmount.nan
      /\ numAmount.v > 0
      /\ ~balance.nan /\ numAmount.v <= balance.v

\* getDomain of each variant, for the chain id the provider reports
GetDomain(v, chainId) ==
  IF v = "EcoGaslessTransfer"
  THEN [name |-> "EcoMetaTransfer", version |-> "1", chainId |-> chainId,
        verifyingContract |-> ECO_META_CONTRACT]
  ELSE [name |-> "EcoToken", version |-> "1", chainId |-> chainId,
        verifyingContract |-> CONTRACT_ADDRESS]

\* getTypes, the same in both variants
GetTypes(v) ==
  << [name |-> "from", type |-> "address"],
     [name |-> "to", type |-> "address"],
     [name |-> "amount", type |-> "uint256"],
     [name |-> "nonce", type |-> "uint256"],
     [name |-> "deadline", type |-> "uint256"] >>

\* the six names the relay destructures from the JSON body of each variant;
\* GaslessTransferForm posts {transferRequest, signature, contractAddress}
PostBody(v, request, signature) ==
  IF v = "EcoGaslessTransfer"
  THEN [from |-> request.from, to |-> request.to, amount |-> request.amount,
        nonce |-> request.nonce, deadline |-> request.deadline,
        signature |-> signature]
  ELSE [from |-> Undefined, to |-> Undefined, amount |-> Undefined,
        nonce |-> Undefined, deadline |-> Undefined, signature |-> signature]

VARIABLES
  variant,           \* which component is mounted
  provider,          \* prop provider: TRUE for a BrowserProvider, FALSE for null
  address,           \* prop address: Null or the account's address
  isConnected,       \* prop isConnected
  ethChain,          \* the chain the wallet extension is on in this session
  recipientAddress,  \* form state
  amount,            \* form state, a text
  tokenBalance,      \* form state, a text
  cachedWei,         \* the balance value tokenBalance was formatted from
  loading,           \* form state
  transferHistory,   \* form state: the entries, newest first
  cpc,               \* position of handleGaslessTransfer
  attempts,          \* attempts so far; Date.now() of a click differs from
                     \* that of every earlier click, and is held as this count
  cur,               \* locals of the running handleGaslessTransfer
  clicks             \* flips with every invocation of handleGaslessTransfer

clientVars == <<variant, provider, address, isConnected, ethChain,
                recipientAddress, amount, tokenBalance, cachedWei, loading,
                transferHistory, cpc, attempts, cur, clicks>>

formVars == <<recipientAddress, amount, tokenBalance, cachedWei>>

propVars == <<variant, provider, address, isConnected, ethChain>>

\* the account selected in the wallet extension
WalletAccount == "a"

\* the ids of the attempts of a run of the model
TransferIds == {1, 2}

NoTransferRequest == [from |-> Undefined]

NoSignature == Undefined

NoAttempt ==
  [id |-> 0, provider |-> FALSE, address |-> Null, recipient |-> "", amount |-> << >>,
   request |-> NoTransferRequest, signer |-> Null, domain |-> Undefined,
   signature |-> NoSignature, nonceRead |-> "none", readValue |-> 0, nonceFrom |-> "none",
   steps |-> << >>, effects |-> << >>, h |-> 0]

ClientInit ==
  /\ variant \in Variants
  /\ provider = FALSE /\ address = Null /\ isConnected = FALSE
  /\ ethChain \in {SEPOLIA, OTHER_CHAIN}
  /\ recipientAddress = "" /\ amount = << >>
  /\ tokenBalance = <<"0">> /\ cachedWei = 0
  /\ loading = FALSE
  /\ transferHistory = << >>
  /\ cpc = "idle"
  /\ attempts = 0
  /\ cur = NoAttempt
  /\ clicks = 0

\* no component is mounted: the relay alone
ClientAbsent ==
  /\ variant = "EcoGaslessTransfer"
  /\ provider = FALSE /\ address = Null /\ isConnected = FALSE
  /\ ethChain = SEPOLIA
  /\ recipientAddress = "" /\ amount = << >>
  /\ tokenBalance = <<"0">> /\ cachedWei = 0
  /\ loading = FALSE
  /\ transferHistory = << >>
  /\ cpc = "idle"
  /\ attempts = 0
  /\ cur = NoAttempt
  /\ clicks = 0

Prepend(history, entry) == <<entry>> \o history

\* prev.map(transfer => transfer.id === transferId
\*            ? {...transfer, txHash, status: 'success'} : transfer)
MarkSuccess(history, id, hash) ==
  [i \in DOMAIN history |->
     IF history[i].id = id
     THEN [history[i] EXCEPT !.status = "success", !.txHash = hash]
     ELSE history[i]]

\* the map without its test of the id: every entry is marked
MarkFailedEvery(history, id, message) ==
  [i \in DOMAIN history |-> [history[i] EXCEPT !.status = "failed", !.error = message]]

\* prev.map(transfer => transfer.id === transferId
\*            ? {...transfer, status: 'failed', error: error.message} : transfer)
MarkFailed(history, id, message) ==
  [i \in DOMAIN history |->
     IF history[i].id = id
     THEN [history[i] EXCEPT !.status = "failed", !.error = message]
     ELSE history[i]]

\* the disabled attribute of the transfer button
ButtonDisabled ==
  \/ loading
  \/ recipientAddress = "" \/ amount = << >>
  \/ ~ValidateAddress(recipientAddress)
  \/ ~ValidateAmount(amount, tokenBalance)

\* the first test of handleGaslessTransfer:
\*   EcoGaslessTransfer   if (!isConnected || !address)
\*   GaslessTransferForm  if (!provider || !address)
NotConnected ==
  IF variant = "EcoGaslessTransfer"
  THEN ~isConnected \/ address = Null
  ELSE ~provider \/ address = Null

\* the object createTransferRequest returns
TransferRequest(from, to, wei, nonce, deadline) ==
  [from |-> Str(from), to |-> Str(to), amount |-> NumStr(wei),
   nonce |-> Num(nonce), deadline |-> Num(deadline)]

\* the catch and finally blocks of handleGaslessTransfer, on the history
\* as the try block left it
Fail(history, id, message) ==
  /\ transferHistory' = MarkFailed(history, id, message)
  /\ loading' = FALSE
  /\ cpc' = "idle"
  /\ cur' = NoAttempt

\* the user edits the form; the inputs are disabled while loading
TypeRecipient(r) ==
  /\ ~loading
  /\ recipientAddress' = r
  /\ UNCHANGED <<amount, tokenBalance, cachedWei, loading, transferHistory, cpc, attempts, cur, clicks>>
  /\ UNCHANGED propVars

TypeAmount(t) ==
  /\ ~loading
  /\ amount' = t
  /\ UNCHANGED <<recipientAddress, tokenBalance, cachedWei, loading, transferHistory, cpc, attempts, cur, clicks>>
  /\ UNCHANGED propVars

\* the wallet hook hands new props to the component: a provider or null,
\* the selected account's address or null, isConnected with the address
WalletSession(p, a) ==
  /\ provider' = p
  /\ address' = a
  /\ isConnected' = (a # Null)
  /\ UNCHANGED <<variant, ethChain>>
  /\ UNCHANGED <<formVars, loading, transferHistory, cpc, attempts, cur, clicks>>

\* fetchTokenBalance of the mount effect settles with the balance b
FetchTokenBalance(b) ==
  /\ isConnected /\ address # Null /\ provider
  /\ tokenBalance' = FormatEther(b)
  /\ cachedWei' = b
  /\ UNCHANGED <<recipientAddress, amount, loading, transferHistory, cpc, attempts, cur, clicks>>
  /\ UNCHANGED propVars

\* handleGaslessTransfer is invoked and runs up to its first await that
\* leaves the component.  Its one caller, the transfer button, is disabled
\* while loading, which keeps a second invocation from starting while one is
\* running; the button is also disabled while the form is invalid, and the
\* handler is taken here for every content of the form, so that its own
\* tests decide.
HandleGaslessTransfer ==
  /\ ~loading
  /\ attempts + 1 \in TransferIds
  /\ clicks' = 1 - clicks
  /\ LET id == attempts + 1
         entry == [id |-> id, status |-> "pending", error |-> "", txHash |-> 0]
         begun == [NoAttempt EXCEPT !.id = id, !.provider = provider, !.address = address,
                     !.recipient = recipientAddress, !.amount = amount,
                     !.effects = <<"history">>]
         wei == ParseEther(amount)
     IN
       IF \/ NotConnected
          \/ ~ValidateAddress(recipientAddress)
          \/ ~ValidateAmount(amount, tokenBalance)
       THEN \* toast.error and return
            UNCHANGED <<loading, transferHistory, cpc, attempts, cur>>
       ELSE
         /\ attempts' = id
         /\ IF variant = "EcoGaslessTransfer"
            THEN IF ~provider
                 THEN \* getNonce throws before its read
                      Fail(Prepend(transferHistory, entry), id, "Provider or address not available")
                 ELSE \* await contract.nonces(address)
                      /\ cur' = [begun EXCEPT !.effects = Append(@, "nonces")]
                      /\ transferHistory' = Prepend(transferHistory, entry)
                      /\ loading' = TRUE
                      /\ cpc' = "nonce"
            ELSE \* getNonce of GaslessTransferForm returns the time without a read
                 IF ~wei.ok
                 THEN Fail(Prepend(transferHistory, entry), id, "invalid FixedNumber string value")
                 ELSE \* await provider.getSigner()
                      /\ cur' = [begun EXCEPT
                                   !.nonceFrom = "time",
                                   !.request = TransferRequest(address, recipientAddress, wei.wei,
                                                               now, now + FORM_VALIDITY),
                                   !.steps = <<"build">>,
                                   !.effects = Append(@, "getSigner")]
                      /\ transferHistory' = Prepend(transferHistory, entry)
                      /\ loading' = TRUE
                      /\ cpc' = "signer"
  /\ UNCHANGED formVars
  /\ UNCHANGED propVars

\* EcoGaslessTransfer: await contract.nonces(address) settles; the request is
\* built and the signer is asked for
NonceSettles(readOk) ==
  /\ cpc = "nonce"
  /\ LET read == nonces[AccountOf(cur.address)]
         nonce == IF readOk THEN read ELSE now
         wei == ParseEther(cur.amount)
         after == [cur EXCEPT !.nonceRead = IF readOk THEN "ok" ELSE "failed",
                              !.readValue = IF readOk THEN read ELSE 0,
                              !.nonceFrom = IF readOk THEN "contract" ELSE "time"]
     IN
       IF ~wei.ok
       THEN Fail(transferHistory, cur.id, "invalid FixedNumber string value")
       ELSE /\ cur' = [after EXCEPT
                         !.request = TransferRequest(cur.address, cur.recipient, wei.wei,
                                                     nonce, now + ECO_VALIDITY),
                         !.steps = <<"build">>,
                         !.effects = Append(@, "getSigner")]
            /\ cpc' = "signer"
            /\ UNCHANGED <<loading, transferHistory>>
  /\ UNCHANGED <<formVars, attempts, clicks>>
  /\ UNCHANGED propVars

\* await provider.getSigner() settles
SignerSettles(ok) ==
  /\ cpc = "signer"
  /\ IF ~ok
     THEN Fail(transferHistory, cur.id, "could not get signer")
     ELSE /\ cur' = [cur EXCEPT !.signer = WalletAccount, !.effects = Append(@, "getNetwork")]
          /\ cpc' = "network"
          /\ UNCHANGED <<loading, transferHistory>>
  /\ UNCHANGED <<formVars, attempts, clicks>>
  /\ UNCHANGED propVars

\* await provider.getNetwork() settles; the wallet is asked to sign
NetworkSettles(ok) ==
  /\ cpc = "network"
  /\ IF ~ok
     THEN Fail(transferHistory, cur.id, "could not detect network")
     ELSE /\ cur' = [cur EXCEPT !.domain = GetDomain(variant, ethChain),
                                !.effects = Append(@, "signTypedData")]
          /\ cpc' = "sign"
          /\ UNCHANGED <<loading, transferHistory>>
  /\ UNCHANGED <<formVars, attempts, clicks>>
  /\ UNCHANGED propVars

\* await signer.signTypedData(domain, types, transferRequest) settles.
\* GaslessTransferForm then calls ethers.splitSignature, which the library
\* of the build either has (splitOk) or not (a TypeError); on success the
\* request is posted.
SignSettles(approved, splitOk) ==
  /\ cpc = "sign"
  /\ variant = "EcoGaslessTransfer" => splitOk
  /\ LET raw == SignTypedData(cur.signer, cur.domain, GetTypes(variant), cur.request) IN
       IF ~approved
       THEN Fail(transferHistory, cur.id, "user rejected action")
       ELSE IF ~splitOk
       THEN Fail(transferHistory, cur.id, "ethers.splitSignature is not a function")
       ELSE /\ cur' = [cur EXCEPT
                         !.signature = IF variant = "EcoGaslessTransfer" THEN raw
                                       ELSE [raw EXCEPT !.t = "vrs"],
                         !.steps = cur.steps \o <<"sign", "relay">>,
                         !.effects = Append(@, "post")]
            /\ cpc' = "post"
            /\ UNCHANGED <<loading, transferHistory>>
  /\ UNCHANGED <<formVars, attempts, clicks>>
  /\ UNCHANGED propVars

\* the POST reaches the relay, which starts an invocation for it
PostArrives(h) ==
  /\ cpc = "post"
  /\ hpc[h] = "idle" /\ \A g \in Handlers : hpc[g] = "idle" => h <= g
  /\ Receive(h, "POST", PostBody(variant, cur.request, cur.signature))
  /\ cur' = [cur EXCEPT !.h = h]
  /\ cpc' = "response"
  /\ UNCHANGED <<formVars, loading, transferHistory, attempts, clicks>>
  /\ UNCHANGED propVars

\* fetch rejects: the relay cannot be reached, or the connection is lost
FetchRejects ==
  /\ cpc \in {"post", "response"}
  /\ Fail(transferHistory, cur.id, "Failed to fetch")
  /\ UNCHANGED <<formVars, attempts, clicks>>
  /\ UNCHANGED propVars

\* errorData.message of a relay answer: the relay's JSON has the fields
\* error, success, txHash and blockNumber, and never message
ErrorDataMessage(response) == ""

\* the relay's answer arrives
ResponseSettles ==
  /\ cpc = "response"
  /\ hpc[cur.h] = "done"
  /\ LET response == hresp[cur.h][1]
         ok == response.status >= 200 /\ response.status <= 299
     IN
       IF ~ok
       THEN /\ Fail(transferHistory, cur.id,
                    IF ErrorDataMessage(response) # "" THEN ErrorDataMessage(response)
                    ELSE "Relay request failed")
            /\ UNCHANGED <<recipientAddress, amount>>
       ELSE \* success: the entry, the form reset, await fetchTokenBalance()
            /\ transferHistory' = MarkSuccess(transferHistory, cur.id, response.txHash)
            /\ recipientAddress' = ""
            /\ amount' = << >>
            /\ cur' = [cur EXCEPT !.effects = Append(@, "balanceOf")]
            /\ cpc' = "balance"
            /\ UNCHANGED loading
  /\ UNCHANGED <<tokenBalance, cachedWei, attempts, clicks>>
  /\ UNCHANGED propVars

\* await fetchTokenBalance() settles (it catches its own errors); finally
BalanceSettles(ok, b) ==
  /\ cpc = "balance"
  /\ IF ok
     THEN tokenBalance' = FormatEther(b) /\ cachedWei' = b
     ELSE UNCHANGED <<tokenBalance, cachedWei>>
  /\ loading' = FALSE
  /\ cpc' = "idle"
  /\ cur' = NoAttempt
  /\ UNCHANGED <<recipientAddress, amount, transferHistory, attempts, clicks>>
  /\ UNCHANGED propVars

(***************************************************************************)
(* Specifications.                                                         *)
(***************************************************************************)
\* ---------------------------------------------------------------------
\* App and useContract: the wallet session, the cached role flags, the
\* cached action list and the writes of the role panels
\* ---------------------------------------------------------------------

\* bounds of the dashboard model
MaxActions == 2

MaxRoleChanges == 2

\* the in-flight runs of checkUserRole and of loadUserActions followed
Refreshes == {1, 2}

Loads == {1, 2}

\* wallet.chainId of a session without a wallet: null
NoChain == 0

\* useState of userRole
NoRoles == [isManufacturer |-> FALSE, isAuditor |-> FALSE, isAdmin |-> FALSE]

RoleStates == [isManufacturer : BOOLEAN, isAuditor : BOOLEAN, isAdmin : BOOLEAN]

\* the record the contract holds at manufacturerActions(address, i), as
\* loadUserActions copies it
ManufacturerAction(i) == [description |-> i, verified |-> FALSE]

VARIABLES
  chainId,       \* wallet.chainId: NoChain for null
  contract,      \* useContract's contract state: TRUE once set
  userRole,      \* useContract's cached role flags
  userActions,   \* useContract's cached action list
  allUsers,      \* useContract's cached user list: the session address's row
  hookLoading,   \* useContract's loading state
  hookDirty,     \* a dependency of useContract's effect changed since it ran
  chainRoles,    \* the contract's role membership of the session address
  chainActions,  \* the number of records the contract holds for the address
  refresh,       \* the runs of checkUserRole
  load,          \* the runs of loadUserActions
  write,         \* the running write operation of a panel
  roleChanges,   \* the grants and revocations mined so far
  profile        \* EcoProfile: its actions state and its run of fetchProfileData

appVars == <<chainId, contract, userRole, userActions, allUsers, hookLoading,
             hookDirty, chainRoles, chainActions, refresh, load, write, roleChanges, profile>>

\* the rest of the transfer component, which the dashboard leaves alone
transferVars == <<variant, ethChain, formVars, loading, transferHistory, cpc,
                  attempts, cur, clicks>>

\* address: the address of the render the run was invoked in
IdleRefresh == [pc |-> "idle", got |-> << >>, seen |-> {}, address |-> Null]

IdleLoad ==
  [pc |-> "idle", actionId |-> 0, actions |-> << >>, lookups |-> << >>,
   address |-> Null]

IdleWrite == [pc |-> "idle", op |-> "", stage |-> 0, fetched |-> << >>, awaits |-> <<"", 0>>]

\* EcoProfile with no run of fetchProfileData, showing the list actions
IdleProfile(actions) ==
  [pc |-> "idle", actionId |-> 0, manufacturerActions |-> << >>, lookups |-> << >>,
   actions |-> actions]

NoUsers == [isManufacturer |-> FALSE, isAuditor |-> FALSE]

AppMounted ==
  /\ chainId = NoChain
  /\ contract = FALSE
  /\ userRole = NoRoles
  /\ userActions = << >>
  /\ allUsers = NoUsers
  /\ hookLoading = FALSE
  /\ hookDirty = TRUE
  /\ chainRoles \in RoleStates
  /\ chainActions \in 0 .. MaxActions
  /\ refresh = [r \in Refreshes |-> IdleRefresh]
  /\ load = [l \in Loads |-> IdleLoad]
  /\ write = IdleWrite
  /\ roleChanges = 0
  /\ profile = IdleProfile(<< >>)

\* no dashboard is mounted
AppAbsent ==
  /\ chainId = NoChain
  /\ contract = FALSE
  /\ userRole = NoRoles
  /\ userActions = << >>
  /\ allUsers = NoUsers
  /\ hookLoading = FALSE
  /\ hookDirty = FALSE
  /\ chainRoles = NoRoles
  /\ chainActions = 0
  /\ refresh = [r \in Refreshes |-> IdleRefresh]
  /\ load = [l \in Loads |-> IdleLoad]
  /\ write = IdleWrite
  /\ roleChanges = 0
  /\ profile = IdleProfile(<< >>)

\* const isWrongNetwork = wallet.chainId !== null && wallet.chainId !== SEPOLIA_CHAIN_ID
IsWrongNetworkInverted == chainId # NoChain /\ chainId = SEPOLIA

IsWrongNetwork == chainId # NoChain /\ chainId # SEPOLIA

\* what App renders below the header: the role panels and the placeholder
View ==
  IF isConnected /\ address # Null /\ ~IsWrongNetwork
  THEN {"Dashboard"}
       \cup (IF userRole.isAdmin THEN {"AdminPanel"} ELSE {})
       \cup (IF userRole.isManufacturer THEN {"ManufacturerPanel"} ELSE {})
       \cup (IF userRole.isAuditor THEN {"AuditorPanel"} ELSE {})
       \cup (IF ~userRole.isAdmin /\ ~userRole.isManufacturer /\ ~userRole.isAuditor
             THEN {"NoRoleAssigned"} ELSE {})
  ELSE {}

\* the dependencies of useContract's effect: [provider, address, userRole.isAdmin]
DepsChange ==
  \/ provider' # provider
  \/ address' # address
  \/ userRole'.isAdmin # userRole.isAdmin

\* a membership on the chain changes: the runs of checkUserRole in flight
\* have now seen one more state of the chain
Seeing(rf, roles) ==
  [r \in Refreshes |->
     IF rf[r].pc = "idle" THEN rf[r] ELSE [rf[r] EXCEPT !.seen = @ \cup {roles}]]

\* the roles and the number of records that the contract holds for an
\* address: chainRoles and chainActions for the wallet's first account, and
\* nothing for any other address
RolesOf(a) == IF a = AddrChecksum[WalletAccount] THEN chainRoles ELSE NoRoles

ActionsOf(a) == IF a = AddrChecksum[WalletAccount] THEN chainActions ELSE 0

\* checkUserRole is invoked and runs up to its first await
CheckUserRole ==
  IF ~contract \/ address = Null
  THEN UNCHANGED refresh
  ELSE \E r \in Refreshes :
         /\ refresh[r].pc = "idle"
         /\ \A q \in Refreshes : refresh[q].pc = "idle" => r <= q
         /\ refresh' = [refresh EXCEPT ![r] =
                          [pc |-> "ids", got |-> << >>, seen |-> {chainRoles},
                           address |-> address]]

\* } catch (error) { console.error('Error checking user role:', error); }
UserRoleAfterErrorCleared(cached) == NoRoles

UserRoleAfterError(cached) == cached

\* the three role identifiers are read; a read that throws ends the run
RoleIdsSettle(r, ok) ==
  /\ refresh[r].pc = "ids"
  /\ IF ok
     THEN /\ refresh' = [refresh EXCEPT ![r].pc = "isManufacturer"]
          /\ UNCHANGED userRole
     ELSE /\ refresh' = [refresh EXCEPT ![r] = IdleRefresh]
          /\ userRole' = UserRoleAfterError(userRole)
  /\ UNCHANGED <<roleChanges, profile>>
  /\ UNCHANGED <<provider, address, isConnected>>
  /\ hookDirty' = (hookDirty \/ DepsChange)
  /\ UNCHANGED <<chainId, contract, userActions, allUsers, hookLoading, chainRoles,
                 chainActions, load, write>>

NextQuery(flag) ==
  CASE flag = "isManufacturer" -> "isAuditor"
    [] flag = "isAuditor" -> "isAdmin"

\* await contract.hasRole(manufacturerRole, address), and then the same of
\* the auditor role: the answer is the membership on the chain at that moment
HasRoleSettles(r, ok) ==
  /\ refresh[r].pc \in {"isManufacturer", "isAuditor"}
  /\ IF ok
     THEN /\ refresh' = [refresh EXCEPT ![r].pc = NextQuery(@),
                                        ![r].got = Append(@, RolesOf(refresh[r].address)[refresh[r].pc])]
          /\ UNCHANGED userRole
     ELSE /\ refresh' = [refresh EXCEPT ![r] = IdleRefresh]
          /\ userRole' = UserRoleAfterError(userRole)
  /\ UNCHANGED <<roleChanges, profile>>
  /\ UNCHANGED <<provider, address, isConnected>>
  /\ hookDirty' = (hookDirty \/ DepsChange)
  /\ UNCHANGED <<chainId, contract, userActions, allUsers, hookLoading, chainRoles,
                 chainActions, load, write>>

\* await contract.hasRole(defaultAdminRole, address) and
\* setUserRole({ isManufacturer, isAuditor, isAdmin })
SetUserRole(r, ok) ==
  /\ refresh[r].pc = "isAdmin"
  /\ IF ok
     THEN /\ refresh' = [refresh EXCEPT ![r] = IdleRefresh]
          /\ userRole' = [isManufacturer |-> refresh[r].got[1],
                          isAuditor |-> refresh[r].got[2],
                          isAdmin |-> RolesOf(refresh[r].address).isAdmin]
     ELSE /\ refresh' = [refresh EXCEPT ![r] = IdleRefresh]
          /\ userRole' = UserRoleAfterError(userRole)
  /\ UNCHANGED <<roleChanges, profile>>
  /\ UNCHANGED <<provider, address, isConnected>>
  /\ hookDirty' = (hookDirty \/ DepsChange)
  /\ UNCHANGED <<chainId, contract, userActions, allUsers, hookLoading, chainRoles,
                 chainActions, load, write>>

\* loadUserActions is invoked and runs up to its first lookup
LoadUserActions ==
  IF ~contract \/ address = Null \/ ~userRole.isManufacturer
  THEN UNCHANGED load
  ELSE \E l \in Loads :
         /\ load[l].pc = "idle"
         /\ \A q \in Loads : load[q].pc = "idle" => l <= q
         /\ load' = [load EXCEPT ![l] = [IdleLoad EXCEPT !.pc = "probing", !.address = address]]

\* actionId++
NextActionIdSkipping(actionId) == actionId + 2

NextActionId(actionId) == actionId + 1

\* one turn of the while (true) of loadUserActions: the lookup of actionId
\* returns a record, or it throws (no record at that index, or a fault of
\* the provider) and the loop breaks and the list is set
ManufacturerActionsSettles(l, fault) ==
  /\ load[l].pc = "probing"
  /\ IF load[l].actionId < ActionsOf(load[l].address) /\ ~fault
     THEN /\ load' = [load EXCEPT
                        ![l].actions = Append(@, ManufacturerAction(load[l].actionId)),
                        ![l].lookups = Append(@, load[l].actionId),
                        ![l].actionId = NextActionId(@)]
          /\ UNCHANGED userActions
     ELSE /\ load' = [load EXCEPT ![l] = IdleLoad]
          /\ userActions' = load[l].actions
  /\ UNCHANGED <<chainId, contract, userRole, allUsers, hookLoading, hookDirty,
                 chainRoles, chainActions, refresh, write>>
  /\ UNCHANGED <<provider, address, isConnected>>
  /\ UNCHANGED <<roleChanges, profile>>

\* the record fetchProfileData makes of the contract's record at index i
ProfileAction(i) == [description |-> i, verified |-> FALSE, actionId |-> i]

\* EcoProfile is mounted, or one of isConnected, address and provider has
\* changed: its effect invokes fetchProfileData, which runs up to balanceOf
FetchProfileData ==
  /\ isConnected /\ address # Null /\ provider
  /\ profile.pc = "idle"
  /\ profile' = [IdleProfile(profile.actions) EXCEPT !.pc = "balanceOf"]
  /\ UNCHANGED <<provider, address, isConnected>>
  /\ UNCHANGED <<chainId, contract, userRole, userActions, allUsers, hookLoading,
                 hookDirty, chainRoles, chainActions, refresh, load, write, roleChanges>>

\* await contract.balanceOf(address): a throw goes to the outer catch
BalanceOfSettles(ok) ==
  /\ profile.pc = "balanceOf"
  /\ profile' = IF ok THEN [profile EXCEPT !.pc = "probing"]
                      ELSE IdleProfile(profile.actions)
  /\ UNCHANGED <<provider, address, isConnected>>
  /\ UNCHANGED <<chainId, contract, userRole, userActions, allUsers, hookLoading,
                 hookDirty, chainRoles, chainActions, refresh, load, write, roleChanges>>

\* one turn of the while (true) of fetchProfileData
ProfileActionSettles(fault) ==
  /\ profile.pc = "probing"
  /\ IF profile.actionId < chainActions /\ ~fault
     THEN profile' = [profile EXCEPT
                        !.manufacturerActions = Append(@, ProfileAction(profile.actionId)),
                        !.lookups = Append(@, profile.actionId),
                        !.actionId = @ + 1]
     ELSE profile' = IdleProfile(profile.manufacturerActions)
  /\ UNCHANGED <<provider, address, isConnected>>
  /\ UNCHANGED <<chainId, contract, userRole, userActions, allUsers, hookLoading,
                 hookDirty, chainRoles, chainActions, refresh, load, write, roleChanges>>

\* loadAllUsers: the rows of the user list are read from the contract
LoadAllUsers ==
  IF ~contract
  THEN UNCHANGED allUsers
  ELSE allUsers' = [isManufacturer |-> chainRoles.isManufacturer,
                    isAuditor |-> chainRoles.isAuditor]

\* useWallet's checkConnection with an account selected in the wallet, the
\* wallet being on chain c
CheckConnection(c) ==
  /\ provider' = TRUE
  /\ address' = AddrChecksum[WalletAccount]
  /\ isConnected' = TRUE
  /\ chainId' = c
  /\ UNCHANGED userRole
  /\ hookDirty' = (hookDirty \/ DepsChange)
  /\ UNCHANGED <<contract, userActions, allUsers, hookLoading, chainRoles,
                 chainActions, refresh, load, write>>
  /\ UNCHANGED <<roleChanges, profile>>

\* useWallet's disconnect
Disconnect ==
  /\ isConnected
  /\ address' = Null
  /\ isConnected' = FALSE
  /\ chainId' = NoChain
  /\ provider' = FALSE
  /\ UNCHANGED userRole
  /\ hookDirty' = (hookDirty \/ DepsChange)
  /\ UNCHANGED <<contract, userActions, allUsers, hookLoading, chainRoles,
                 chainActions, refresh, load, write>>
  /\ UNCHANGED <<roleChanges, profile>>

\* the effect of useContract, which runs when one of its dependencies has
\* changed; checkUserRole, loadUserActions and loadAllUsers are those of the
\* render the effect belongs to, and see the contract of before setContract
UseContractEffect ==
  /\ hookDirty
  /\ hookDirty' = FALSE
  /\ IF provider /\ address # Null
     THEN /\ contract' = TRUE
          /\ CheckUserRole
          /\ LoadUserActions
          /\ IF userRole.isAdmin THEN LoadAllUsers ELSE UNCHANGED allUsers
     ELSE UNCHANGED <<contract, refresh, load, allUsers>>
  /\ UNCHANGED <<chainId, userRole, userActions, hookLoading, chainRoles,
                 chainActions, write>>
  /\ UNCHANGED <<provider, address, isConnected>>
  /\ UNCHANGED <<roleChanges, profile>>

\* the effect of App: its dependencies hold getTokenBalance,
\* updateTokenBalance and checkUserRole, which are new functions in every
\* render, so the effect runs after every render of App
AppEffect ==
  /\ IF isConnected /\ address # Null
     THEN CheckUserRole
     ELSE UNCHANGED refresh
  /\ refresh' # refresh
  /\ UNCHANGED <<chainId, contract, userRole, userActions, allUsers, hookLoading,
                 hookDirty, chainRoles, chainActions, load, write>>
  /\ UNCHANGED <<provider, address, isConnected>>
  /\ UNCHANGED <<roleChanges, profile>>

\* another administrator grants or revokes a role of the session address
RoleChangesOnChain(flag, value) ==
  /\ roleChanges < MaxRoleChanges
  /\ roleChanges' = roleChanges + 1
  /\ chainRoles[flag] # value
  /\ chainRoles' = [chainRoles EXCEPT ![flag] = value]
  /\ refresh' = Seeing(refresh, chainRoles')
  /\ UNCHANGED <<chainId, contract, userRole, userActions, allUsers, hookLoading,
                 hookDirty, chainActions, load, write>>
  /\ UNCHANGED <<provider, address, isConnected>>
  /\ UNCHANGED profile

\* the writes of useContract, with the panel each is reached from
WriteOps ==
  {"submitEcoAction", "verifyAction", "addManufacturer", "addAuditor", "removeRole"}

PanelOf(op) ==
  CASE op = "submitEcoAction" -> "ManufacturerPanel"
    [] op = "verifyAction" -> "AuditorPanel"
    [] OTHER -> "AdminPanel"

\* the re-fetches a write of useContract awaits after tx.wait()
HookRefetches(op) ==
  CASE op = "submitEcoAction" -> <<"actions">>
    [] op = "verifyAction" -> << >>
    [] op = "addManufacturer" -> <<"users", "roles">>
    [] op = "addAuditor" -> <<"users", "roles">>
    [] op = "removeRole" -> <<"users">>

\* the re-fetches the callback App hands to the panel awaits after the write
CallbackRefetches(op) ==
  CASE op = "submitEcoAction" -> <<"actions">>
    [] op = "verifyAction" -> << >>
    [] op = "addManufacturer" -> <<"roles">>
    [] op = "addAuditor" -> <<"roles">>
    [] op = "removeRole" -> <<"roles">>

Refetches(op) == HookRefetches(op) \o CallbackRefetches(op)

\* a button of a panel invokes a write, which runs up to provider.getSigner();
\* the buttons are disabled while loading, and the forms while their own
\* handler runs.  The address a write names is another than the session's.
InvokeWrite(op) ==
  /\ write.pc = "idle"
  /\ ~hookLoading
  /\ PanelOf(op) \in View
  /\ IF ~contract \/ ~provider
     THEN UNCHANGED write
     ELSE write' = [IdleWrite EXCEPT !.pc = "getSigner", !.op = op]
  /\ UNCHANGED <<chainId, contract, userRole, userActions, allUsers, hookLoading,
                 hookDirty, chainRoles, chainActions, refresh, load>>
  /\ UNCHANGED <<provider, address, isConnected>>
  /\ UNCHANGED <<roleChanges, profile>>

\* await provider.getSigner() and setLoading(true)
GetSignerSettles(ok) ==
  /\ write.pc = "getSigner"
  /\ IF ok
     THEN /\ write' = [write EXCEPT !.pc = "send"]
          /\ hookLoading' = TRUE
     ELSE /\ write' = IdleWrite
          /\ UNCHANGED hookLoading
  /\ UNCHANGED <<chainId, contract, userRole, userActions, allUsers, hookDirty,
                 chainRoles, chainActions, refresh, load>>
  /\ UNCHANGED <<provider, address, isConnected>>
  /\ UNCHANGED <<roleChanges, profile>>

\* the call of the contract's method settles: a transaction, or a throw
\* that the catch reports and throws on, with setLoading(false) of finally
TransactionSent(ok) ==
  /\ write.pc = "send"
  /\ IF ok
     THEN /\ write' = [write EXCEPT !.pc = "wait"]
          /\ UNCHANGED hookLoading
     ELSE /\ write' = IdleWrite
          /\ hookLoading' = FALSE
  /\ UNCHANGED <<chainId, contract, userRole, userActions, allUsers, hookDirty,
                 chainRoles, chainActions, refresh, load>>
  /\ UNCHANGED <<provider, address, isConnected>>
  /\ UNCHANGED <<roleChanges, profile>>

\* what a mined write leaves on the chain
ActionsAfter(w, n) == IF w.op = "submitEcoAction" THEN n + 1 ELSE n

\* await tx.wait(): the transaction is mined, or it fails
TransactionMined(ok) ==
  /\ write.pc = "wait"
  /\ IF ok
     THEN /\ ActionsAfter(write, chainActions) <= MaxActions
          /\ chainActions' = ActionsAfter(write, chainActions)
          /\ write' = [write EXCEPT !.pc = "refetch", !.stage = 1]
          /\ UNCHANGED hookLoading
     ELSE /\ write' = IdleWrite
          /\ hookLoading' = FALSE
          /\ UNCHANGED chainActions
  /\ UNCHANGED <<chainId, contract, userRole, userActions, allUsers, hookDirty, chainRoles,
                 refresh, load>>
  /\ UNCHANGED <<provider, address, isConnected>>
  /\ UNCHANGED <<roleChanges, profile>>

\* the run a write is awaiting has returned
Returned(w) ==
  CASE w.awaits[1] = "roles" -> refresh[w.awaits[2]].pc = "idle"
    [] w.awaits[1] = "actions" -> load[w.awaits[2]].pc = "idle"
    [] OTHER -> TRUE

\* the run that an invocation has just started, 0 when it returned at once
Started(before, after, slots) ==
  IF \E s \in slots : before[s] # after[s]
  THEN CHOOSE s \in slots : before[s] # after[s]
  ELSE 0

Awaiting(slice, run) == IF run = 0 THEN <<"", 0>> ELSE <<slice, run>>

\* the write goes on after tx.wait(): it calls its next re-fetch and awaits
\* it; setLoading(false) follows the re-fetches of useContract, and the write
\* is over after those of the callback
Refetch ==
  /\ write.pc = "refetch"
  /\ Returned(write)
  /\ hookLoading' = (write.stage <= Len(HookRefetches(write.op)))
  /\ IF write.stage <= Len(Refetches(write.op))
     THEN LET slice == Refetches(write.op)[write.stage] IN
          /\ IF slice = "roles" THEN CheckUserRole ELSE UNCHANGED refresh
          /\ IF slice = "actions" THEN LoadUserActions ELSE UNCHANGED load
          /\ IF slice = "users" THEN LoadAllUsers ELSE UNCHANGED allUsers
          /\ write' = [write EXCEPT
                         !.stage = @ + 1,
                         !.fetched = Append(@, slice),
                         !.awaits =
                           CASE slice = "roles" -> Awaiting(slice, Started(refresh, refresh', Refreshes))
                             [] slice = "actions" -> Awaiting(slice, Started(load, load', Loads))
                             [] OTHER -> Awaiting(slice, 0)]
     ELSE /\ write' = IdleWrite
          /\ UNCHANGED <<refresh, load, allUsers>>
  /\ UNCHANGED <<chainId, contract, userRole, userActions, hookDirty, chainRoles,
                 chainActions>>
  /\ UNCHANGED <<provider, address, isConnected>>
  /\ UNCHANGED <<roleChanges, profile>>

\* ---------------------------------------------------------------------
\* gasless-transfer-test.ts: validateGaslessTransferData
\* ---------------------------------------------------------------------

\* createTestGaslessTransferData: deadline: currentTime + 900
TEST_VALIDITY == 900

\* the signature string of createTestGaslessTransferData
TestSignature == "0x1234567890abcdef...1b"

\* the strings of the model that start with '0x'
HexStrings == {"0x12", TestSignature}

\* data.signature.startsWith('0x'), a signature of the wallet being a hex string
StartsWith0x(x) == x.t = "sig" \/ (x.t = "string" /\ x.s \in HexStrings)

\* ethers.parseUnits(data.amount, 18) of a string: it throws unless the
\* string is a decimal number
ParseUnitsThrows(x) == x.t # "numstr"

\* if (cond) errors.push(message)
Push(cond, message) == IF cond THEN <<message>> ELSE << >>

\* the test of the 'to' address made on the 'from' address
InvalidToFormatCopied(data) == ~Falsy(data.to) /\ ~IsAddress(data.from)

\* if (data.to && !ethers.isAddress(data.to))
InvalidToFormat(data) == ~Falsy(data.to) /\ ~IsAddress(data.to)

ValidateGaslessTransferData(data, currentTime) ==
  LET errors ==
        Push(Falsy(data.from), "Missing 'from' address")
        \o Push(Falsy(data.to), "Missing 'to' address")
        \o Push(Falsy(data.amount), "Missing 'amount'")
        \o Push(data.nonce = Undefined, "Missing 'nonce'")
        \o Push(Falsy(data.deadline), "Missing 'deadline'")
        \o Push(Falsy(data.signature), "Missing 'signature'")
        \o Push(~Falsy(data.from) /\ ~IsAddress(data.from), "Invalid 'from' address format")
        \o Push(InvalidToFormat(data), "Invalid 'to' address format")
        \o (IF Falsy(data.amount) THEN << >>
            ELSE IF ParseUnitsThrows(data.amount) THEN <<"Invalid amount format">>
            ELSE Push(data.amount.n <= 0, "Amount must be greater than 0"))
        \o Push(~Falsy(data.deadline) /\ data.deadline.n < currentTime,
                "Deadline has already passed")
        \o Push(~Falsy(data.signature) /\ ~StartsWith0x(data.signature),
                "Signature must start with '0x'")
  IN  [isValid |-> Len(errors) = 0, errors |-> errors]

CreateTestGaslessTransferData(currentTime) ==
  [from |-> Str(AddrLower["a"]), to |-> Str(AddrLower["b"]),
   amount |-> NumStr(Pow10(WeiDecimals)), nonce |-> Num(0),
   deadline |-> Num(currentTime + TEST_VALIDITY), signature |-> Str(TestSignature)]

\* the data the function is applied to: each field absent, malformed and
\* well-formed
ValidationInputs ==
  [from : {Undefined, Str(""), Str(BadAddress), Str(AddrLower["a"]), Str(AddrChecksum["a"])},
   to : {Undefined, Str(BadAddress), Str(AddrLower["b"])},
   amount : {Undefined, Str(""), Str("abc"), NumStr(0), NumStr(1)},
   nonce : {Undefined, Num(0), Num(1)},
   deadline : {Undefined} \cup {Num(d) : d \in {0} \cup Deadlines},
   signature : {Undefined, Str(""), Str("12"), Str("0x12"), Sample.signature}]

VARIABLES
  validation     \* the last call of validateGaslessTransferData and its result

validatorVars == <<validation>>

NoValidation == [called |-> FALSE]

ValidatorAbsent == validation = NoValidation

\* validateGaslessTransferData(data), with Date.now() of that moment; one
\* call is followed
Validate(data) ==
  /\ ~validation.called
  /\ validation' = [called |-> TRUE, data |-> data, currentTime |-> now,
                    result |-> ValidateGaslessTransferData(data, now)]

\* validateGaslessTransferData(createTestGaslessTransferData()), as
\* logGaslessTransferData makes it
ValidateTestData == Validate(CreateTestGaslessTransferData(now))

\* ---------------------------------------------------------------------
\* WalletConnect.tsx: the send modal
\* ---------------------------------------------------------------------

\* Number(amount) of the text of a type="number" field: 0 for the empty
\* text, and the value of the floating-point literal the field holds
NumberOf(text) == IF text = << >> THEN [nan |-> FALSE, v |-> 0] ELSE ParseFloat(text)

VARIABLES
  modal,         \* the state of WalletConnect: showModal, recipient, amount,
                 \* isSending, txStatus, txError, sendType
  sending        \* the run of handleSend that awaits, with what it captured

modalVars == <<modal, sending>>

ModalClosed ==
  [showModal |-> FALSE, recipient |-> "", amount |-> << >>, isSending |-> FALSE,
   txStatus |-> "idle", txError |-> "", sendType |-> "eco"]

\* ended: how the last run of handleSend ended
NoSend ==
  [pc |-> "idle", sendType |-> "eco", contract |-> FALSE, amount |-> << >>,
   ended |-> "none"]

Ended(how) == [NoSend EXCEPT !.ended = how]

ModalAbsent ==
  /\ modal = ModalClosed
  /\ sending = NoSend

\* the form is rendered and its controls are enabled
FormEnabled == isConnected /\ modal.showModal /\ ~modal.isSending

\* App renders WalletConnect with the provider of useWallet and the contract
\* of useContract(provider, wallet.address)
WalletProps(p, a, c) ==
  /\ provider' = p
  /\ address' = a
  /\ isConnected' = (a # Null)
  /\ contract' = c
  /\ UNCHANGED transferVars
  /\ UNCHANGED <<chainId, userRole, userActions, allUsers, hookLoading, hookDirty,
                 chainRoles, chainActions, refresh, load, write, roleChanges, profile>>

ResetModal(m) ==
  [m EXCEPT !.recipient = "", !.amount = << >>, !.txStatus = "idle",
            !.txError = "", !.isSending = FALSE]

\* onClick of "Make Transaction": setShowModal(true); resetModal()
MakeTransaction ==
  /\ isConnected /\ ~modal.showModal
  /\ modal' = ResetModal([modal EXCEPT !.showModal = TRUE])
  /\ UNCHANGED sending

\* onClick of the close button, disabled={isSending}
CloseModal ==
  /\ isConnected /\ modal.showModal /\ ~modal.isSending
  /\ modal' = [modal EXCEPT !.showModal = FALSE]
  /\ UNCHANGED sending

SetSendType(t) ==
  /\ FormEnabled
  /\ modal' = [modal EXCEPT !.sendType = t]
  /\ UNCHANGED sending

SetRecipient(r) ==
  /\ FormEnabled
  /\ modal' = [modal EXCEPT !.recipient = r]
  /\ UNCHANGED sending

SetAmount(text) ==
  /\ FormEnabled
  /\ modal' = [modal EXCEPT !.amount = text]
  /\ UNCHANGED sending

\* an early return of handleSend: setTxError(message); return
Rejected(message) ==
  /\ modal' = [modal EXCEPT !.txError = message]
  /\ sending' = Ended("rejected")

\* onSubmit of the form, whose two fields are required
HandleSend ==
  /\ FormEnabled
  /\ modal.recipient # "" /\ modal.amount # << >>
  /\ IF ~provider THEN Rejected("Wallet not connected.")
     ELSE IF ~IsAddress(Str(modal.recipient)) THEN Rejected("Invalid recipient address.")
     ELSE IF \/ modal.amount = << >>
             \/ NumberOf(modal.amount).nan
             \/ NumberOf(modal.amount).v <= 0
          THEN Rejected("Enter a valid amount.")
     ELSE /\ modal' = [modal EXCEPT !.isSending = TRUE, !.txStatus = "pending", !.txError = ""]
          /\ sending' = [pc |-> "getSigner", sendType |-> modal.sendType,
                         contract |-> contract, amount |-> modal.amount,
                         ended |-> "none"]

\* catch: setTxStatus('error'), setTxError(...); finally: setIsSending(false)
SendCaught ==
  /\ modal' = [modal EXCEPT !.txStatus = "error", !.txError = "Transaction failed",
                            !.isSending = FALSE]
  /\ sending' = Ended("caught")

\* provider.getSigner() settles; up to the next await
SendSignerSettles(ok) ==
  /\ sending.pc = "getSigner"
  /\ IF ~ok THEN SendCaught
     ELSE IF sending.sendType = "eco" /\ ~sending.contract
          THEN \* setTxError, setIsSending(false), return; finally
               /\ modal' = [modal EXCEPT !.txError = "Token contract not connected.",
                                         !.isSending = FALSE]
               /\ sending' = Ended("returned")
     ELSE IF ~ParseEther(sending.amount).ok THEN SendCaught
     ELSE sending' = [sending EXCEPT !.pc = IF sending.sendType = "eco"
                                              THEN "transfer" ELSE "sendTransaction"]
          /\ UNCHANGED modal

\* contract.transfer(...) or signer.sendTransaction(...) settles
SendSettles(ok) ==
  /\ sending.pc \in {"transfer", "sendTransaction"}
  /\ IF ok THEN sending' = [sending EXCEPT !.pc = "wait"] /\ UNCHANGED modal
     ELSE SendCaught

\* tx.wait() settles: setTxStatus('success'), resetModal(), setShowModal(false);
\* finally
SendWaitSettles(ok) ==
  /\ sending.pc = "wait"
  /\ IF ok
     THEN /\ modal' = [ResetModal([modal EXCEPT !.txStatus = "success"])
                         EXCEPT !.showModal = FALSE]
          /\ sending' = Ended("success")
     ELSE SendCaught

\* ---------------------------------------------------------------------
\* Typewriter.tsx
\* ---------------------------------------------------------------------

\* the longest list of messages and the longest message of the model
MaxMessages == 2

MaxLength == 2

\* the texts a message can be
MessageTexts ==
  UNION {[1 .. n -> {"a", "b"}] : n \in 0 .. MaxLength}

\* the lists the messages prop can be
MessageLists ==
  UNION {[1 .. n -> MessageTexts] : n \in 1 .. MaxMessages}

\* String.prototype.slice(0, n), 0 <= n
Slice(text, n) == SubSeq(text, 1, IF n < Len(text) THEN n ELSE Len(text))

VARIABLES
  messages,        \* the messages prop
  currentMessage,  \* the state of the last render
  displayed,
  phase,
  updates,         \* the state updates queued since the last render
  timeout,         \* the timer of the last run of the effect, if it is pending
  effectDue        \* a render changed a dependency and the effect has not run

typewriterVars == <<messages, currentMessage, displayed, phase, updates, timeout, effectDue>>

NoTimeout == [set |-> FALSE, update |-> [state |-> "none", value |-> << >>]]

Timeout(update) == [set |-> TRUE, update |-> update]

SetDisplayedTo(text) == [state |-> "displayed", value |-> text]

SetPhaseTo(p) == [state |-> "phase", value |-> p]

\* setCurrentMessage((prev) => (prev + 1) % messages.length)
SetCurrentMessageToNext == [state |-> "currentMessage", value |-> "next"]

TypewriterAbsent ==
  /\ messages = << >>
  /\ currentMessage = 0 /\ displayed = << >> /\ phase = "typing"
  /\ updates = << >>
  /\ timeout = NoTimeout
  /\ effectDue = FALSE

\* the first render of the component
TypewriterMounted ==
  /\ messages \in MessageLists
  /\ currentMessage = 0 /\ displayed = << >> /\ phase = "typing"
  /\ updates = << >>
  /\ timeout = NoTimeout
  /\ effectDue = TRUE

\* the state after the queued updates, applied in their order
RECURSIVE Applied(_, _)
Applied(state, queue) ==
  IF queue = << >> THEN state
  ELSE LET u == Head(queue)
           next ==
             CASE u.state = "displayed" -> [state EXCEPT !.displayed = u.value]
               [] u.state = "phase" -> [state EXCEPT !.phase = u.value]
               [] u.state = "currentMessage" ->
                    [state EXCEPT !.currentMessage = (@ + 1) % Len(messages)]
       IN  Applied(next, Tail(queue))

\* React renders the component with the queued updates; the effect is due
\* when displayed, phase or currentMessage changed
TypewriterRenders ==
  /\ updates # << >>
  /\ LET before == [currentMessage |-> currentMessage, displayed |-> displayed, phase |-> phase]
         after == Applied(before, updates)
     IN  /\ currentMessage' = after.currentMessage
         /\ displayed' = after.displayed
         /\ phase' = after.phase
         /\ effectDue' = (effectDue \/ after # before)
  /\ updates' = << >>
  /\ UNCHANGED <<messages, timeout>>

\* the cleanup of the last run of the effect, clearTimeout(timeout), and
\* then the body of the effect
TypewriterEffect ==
  /\ effectDue
  /\ effectDue' = FALSE
  /\ LET fullText == messages[currentMessage + 1] IN
       IF phase = "typing"
       THEN IF Len(displayed) < Len(fullText)
            THEN /\ timeout' = Timeout(SetDisplayedTo(Slice(fullText, Len(displayed) + 1)))
                 /\ UNCHANGED updates
            ELSE /\ updates' = Append(updates, SetPhaseTo("pausing"))
                 /\ timeout' = Timeout(SetPhaseTo("erasing"))
       ELSE IF phase = "erasing"
       THEN IF Len(displayed) > 0
            THEN /\ timeout' = Timeout(SetDisplayedTo(Slice(fullText, Len(displayed) - 1)))
                 /\ UNCHANGED updates
            ELSE /\ updates' = updates \o <<SetPhaseTo("typing"), SetCurrentMessageToNext>>
                 /\ timeout' = NoTimeout
       ELSE \* pausing: nothing
            /\ timeout' = NoTimeout
            /\ UNCHANGED updates
  /\ UNCHANGED <<messages, currentMessage, displayed, phase>>

\* the pending timer fires and its callback queues its update
TimeoutFires ==
  /\ timeout.set
  /\ updates' = Append(updates, timeout.update)
  /\ timeout' = NoTimeout
  /\ UNCHANGED <<messages, currentMessage, displayed, phase, effectDue>>

\* ---------------------------------------------------------------------
\* useWallet: checkConnection, the wallet events, connectWallet, disconnect
\* ---------------------------------------------------------------------

\* how many times the accounts or the chain of the extension change
MaxWalletChanges == 2

\* the runs of checkConnection that are followed at one time
Checks == {1, 2}

\* the account lists the extension exposes to the page
AccountLists == {<< >>, <<"a">>, <<"b">>}

\* the native balance of each account, in wei
EthBalances == [a \in Accounts |-> IF a = "a" THEN 15 * Pow10(WeiDecimals - 1) ELSE 0]

VARIABLES
  balance,             \* wallet.balance, a text
  walletTokenBalance,  \* wallet.tokenBalance, a text
  isConnecting,        \* wallet.isConnecting
  ethAccounts,         \* the accounts the extension exposes to the page
  walletChanges,       \* the changes of accounts and chain so far
  checks,              \* the runs of checkConnection
  connecting,          \* the run of connectWallet
  lastCall,            \* the last call or continuation of the hook that ran
  cleared              \* disconnect() ran and connectWallet was not called since

walletVars == <<balance, walletTokenBalance, isConnecting, ethAccounts, walletChanges,
                checks, connecting, lastCall, cleared>>

\* the other state of the transfer component and of the dashboard
componentVars == <<variant, formVars, loading, transferHistory, cpc, attempts, cur, clicks>>

dashboardVars == <<contract, userRole, userActions, allUsers, hookLoading, hookDirty,
                   chainRoles, chainActions, refresh, load, write, roleChanges, profile>>

IdleCheck == [pc |-> "idle", by |-> "none", accounts |-> << >>, network |-> NoChain,
              stale |-> FALSE]

NoOp == [call |-> "none", by |-> "none"]

Op(call, by) == [call |-> call, by |-> by]

WalletAbsent ==
  /\ balance = <<"0">> /\ walletTokenBalance = <<"0">> /\ isConnecting = FALSE
  /\ ethAccounts = << >>
  /\ walletChanges = 0
  /\ checks = [k \in Checks |-> IdleCheck]
  /\ connecting = "idle"
  /\ lastCall = NoOp
  /\ cleared = FALSE

\* the first render of the hook, the extension exposing accounts or none
WalletRendered ==
  /\ balance = <<"0">> /\ walletTokenBalance = <<"0">> /\ isConnecting = FALSE
  /\ ethAccounts \in {<< >>, <<WalletAccount>>}
  /\ walletChanges = 0
  /\ checks = [k \in Checks |-> IdleCheck]
  /\ connecting = "idle"
  /\ lastCall = NoOp
  /\ cleared = FALSE

Mounted == lastCall # NoOp

\* setWallet(w)
SetWallet(w) ==
  /\ address' = w.address
  /\ balance' = w.balance
  /\ walletTokenBalance' = w.tokenBalance
  /\ isConnected' = w.isConnected
  /\ isConnecting' = w.isConnecting
  /\ chainId' = w.chainId

WalletUnchanged ==
  UNCHANGED <<address, balance, walletTokenBalance, isConnected, isConnecting, chainId>>

\* the object disconnect passes to setWallet, with the chain id kept
DisconnectedWalletKeepingChain ==
  [address |-> Null, balance |-> <<"0">>, tokenBalance |-> <<"0">>,
   isConnected |-> FALSE, isConnecting |-> FALSE, chainId |-> chainId]

\* the object disconnect passes to setWallet
DisconnectedWallet ==
  [address |-> Null, balance |-> <<"0">>, tokenBalance |-> <<"0">>,
   isConnected |-> FALSE, isConnecting |-> FALSE, chainId |-> NoChain]

\* the object checkConnection passes to setWallet
CheckedWallet(accounts, network, wei) ==
  [address |-> AddrChecksum[accounts[1]], balance |-> FormatEther(wei),
   tokenBalance |-> <<"0">>, isConnected |-> TRUE, isConnecting |-> FALSE,
   chainId |-> network]

HasFreeCheck == \E k \in Checks : checks[k].pc = "idle"

FreeCheck == CHOOSE k \in Checks : checks[k].pc = "idle" /\ \A j \in Checks : checks[j].pc = "idle" => k <= j

\* the runs in flight, after a change of the extension's state
Outdated(runs) ==
  [k \in Checks |-> IF runs[k].pc = "idle" THEN runs[k] ELSE [runs[k] EXCEPT !.stale = TRUE]]

\* checkConnection up to its first await: setProvider(provider), then
\* provider.listAccounts() is awaited
BeginCheck(runs, by) ==
  /\ HasFreeCheck
  /\ provider' = TRUE
  /\ checks' = [runs EXCEPT ![FreeCheck] = [IdleCheck EXCEPT !.pc = "listAccounts", !.by = by]]

\* the mount effect: checkConnection(); setupEventListeners()
MountEffect ==
  /\ ~Mounted
  /\ BeginCheck(checks, "mount")
  /\ lastCall' = Op("mount", "mount")
  /\ WalletUnchanged
  /\ UNCHANGED <<ethChain, ethAccounts, walletChanges, connecting, cleared>>

\* disconnect(): setWallet({...}); setProvider(null); toast.success
DisconnectWallet ==
  /\ SetWallet(DisconnectedWallet)
  /\ provider' = FALSE
  /\ cleared' = TRUE

\* onDisconnect of the button that is rendered while isConnected
ClickDisconnect ==
  /\ Mounted /\ isConnected
  /\ DisconnectWallet
  /\ lastCall' = Op("disconnect", "button")
  /\ UNCHANGED <<ethChain, ethAccounts, walletChanges, checks, connecting>>

\* the extension's accounts change and handleAccountsChanged(accounts) runs
AccountsChanged(accounts) ==
  /\ Mounted
  /\ accounts # ethAccounts /\ walletChanges < MaxWalletChanges
  /\ ethAccounts' = accounts
  /\ walletChanges' = walletChanges + 1
  /\ lastCall' = Op("accountsChanged", "accountsChanged")
  /\ IF Len(accounts) = 0
     THEN /\ DisconnectWallet
          /\ checks' = Outdated(checks)
     ELSE /\ BeginCheck(Outdated(checks), "accountsChanged")
          /\ WalletUnchanged
          /\ UNCHANGED cleared
  /\ UNCHANGED <<ethChain, connecting>>

\* the extension's chain changes and handleChainChanged() runs
ChainChanged(c) ==
  /\ Mounted
  /\ c # ethChain /\ walletChanges < MaxWalletChanges
  /\ ethChain' = c
  /\ walletChanges' = walletChanges + 1
  /\ lastCall' = Op("chainChanged", "chainChanged")
  /\ BeginCheck(Outdated(checks), "chainChanged")
  /\ WalletUnchanged
  /\ UNCHANGED <<ethAccounts, connecting, cleared>>

\* run k of checkConnection returns; connectWallet, when it awaits the run,
\* goes on to toast.success('Wallet connected successfully!')
CheckReturns(k, how) ==
  /\ checks' = [checks EXCEPT ![k] = IdleCheck]
  /\ lastCall' = Op(how, checks[k].by)
  /\ connecting' = IF checks[k].by = "connectWallet" THEN "idle" ELSE connecting

\* provider.listAccounts() of run k settles
ListAccountsSettles(k, ok) ==
  /\ checks[k].pc = "listAccounts"
  /\ IF ~ok THEN CheckReturns(k, "caught")
     ELSE IF Len(ethAccounts) > 0
          THEN /\ checks' = [checks EXCEPT ![k].pc = "getNetwork", ![k].accounts = ethAccounts]
               /\ lastCall' = Op("await", checks[k].by)
               /\ UNCHANGED connecting
          ELSE CheckReturns(k, "noAccounts")
  /\ WalletUnchanged
  /\ UNCHANGED <<provider, ethChain, ethAccounts, walletChanges, cleared>>

\* provider.getNetwork() of run k settles
CheckNetworkSettles(k, ok) ==
  /\ checks[k].pc = "getNetwork"
  /\ IF ~ok THEN CheckReturns(k, "caught")
     ELSE /\ checks' = [checks EXCEPT ![k].pc = "getBalance", ![k].network = ethChain]
          /\ lastCall' = Op("await", checks[k].by)
          /\ UNCHANGED connecting
  /\ WalletUnchanged
  /\ UNCHANGED <<provider, ethChain, ethAccounts, walletChanges, cleared>>

\* provider.getBalance(accounts[0].address) of run k settles
GetBalanceSettles(k, ok) ==
  /\ checks[k].pc = "getBalance"
  /\ IF ~ok THEN CheckReturns(k, "caught") /\ WalletUnchanged
     ELSE /\ SetWallet(CheckedWallet(checks[k].accounts, checks[k].network,
                                     EthBalances[checks[k].accounts[1]]))
          /\ CheckReturns(k, "setWallet")
  /\ UNCHANGED <<provider, ethChain, ethAccounts, walletChanges, cleared>>

\* onConnect of the button that is rendered while not connected,
\* disabled={isConnecting}; one run of connectWallet is followed
ConnectWallet ==
  /\ Mounted /\ ~isConnected /\ ~isConnecting /\ connecting = "idle"
  /\ isConnecting' = TRUE
  /\ connecting' = "requestAccounts"
  /\ cleared' = FALSE
  /\ lastCall' = Op("connectWallet", "connectWallet")
  /\ UNCHANGED <<address, balance, walletTokenBalance, isConnected, chainId>>
  /\ UNCHANGED <<provider, ethChain, ethAccounts, walletChanges, checks>>

\* catch of connectWallet: toast.error, isConnecting: false
ConnectFails ==
  /\ isConnecting' = FALSE
  /\ connecting' = "idle"
  /\ lastCall' = Op("connectFailed", "connectWallet")
  /\ UNCHANGED <<address, balance, walletTokenBalance, isConnected, chainId>>
  /\ UNCHANGED <<provider, checks>>

\* provider.send('eth_requestAccounts', []) settles: it resolves when the
\* extension exposes an account
RequestAccountsSettles(ok) ==
  /\ connecting = "requestAccounts"
  /\ IF ok
     THEN /\ Len(ethAccounts) > 0
          /\ connecting' = "getNetwork"
          /\ lastCall' = Op("await", "connectWallet")
          /\ WalletUnchanged
          /\ UNCHANGED <<provider, checks>>
     ELSE ConnectFails
  /\ UNCHANGED <<ethChain, ethAccounts, walletChanges, cleared>>

\* provider.getNetwork() of connectWallet settles
ConnectNetworkSettles(ok) ==
  /\ connecting = "getNetwork"
  /\ IF ~ok THEN ConnectFails
     ELSE IF ethChain # SEPOLIA
          THEN /\ connecting' = "switchToSepolia"
               /\ lastCall' = Op("await", "connectWallet")
               /\ WalletUnchanged
               /\ UNCHANGED <<provider, checks>>
          ELSE /\ BeginCheck(checks, "connectWallet")
               /\ connecting' = "checkConnection"
               /\ lastCall' = Op("await", "connectWallet")
               /\ WalletUnchanged
  /\ UNCHANGED <<ethChain, ethAccounts, walletChanges, cleared>>

\* switchToSepolia() settles: it resolves when the extension answered the
\* switch or the addition of the chain, and throws otherwise
SwitchSettles(ok) ==
  /\ connecting = "switchToSepolia"
  /\ IF ~ok THEN ConnectFails
     ELSE /\ BeginCheck(checks, "connectWallet")
          /\ connecting' = "checkConnection"
          /\ lastCall' = Op("await", "connectWallet")
          /\ WalletUnchanged
  /\ UNCHANGED <<ethChain, ethAccounts, walletChanges, cleared>>

\* ---------------------------------------------------------------------
\* The dashboard when the wallet's account changes
\* ---------------------------------------------------------------------

VARIABLES
  cachedFor      \* the addresses of the runs that set userRole and userActions

accountVars == <<cachedFor>>

NotCached == [userRole |-> Null, userActions |-> Null]

AccountAbsent == cachedFor = NotCached

\* useWallet's checkConnection after the wallet's account became a, the
\* wallet being on chain c
CheckConnectionAs(a, c) ==
  /\ provider' = TRUE
  /\ address' = AddrChecksum[a]
  /\ isConnected' = TRUE
  /\ chainId' = c
  /\ UNCHANGED userRole
  /\ hookDirty' = (hookDirty \/ DepsChange)
  /\ UNCHANGED <<contract, userActions, allUsers, hookLoading, chainRoles,
                 chainActions, refresh, load, write>>
  /\ UNCHANGED <<roleChanges, profile>>

\* setUserRole(...) and setUserActions(actions) of a run that returns: the
\* cached value is now the one read for the address of that run
RoleCachedBy(r, ok) ==
  cachedFor' = IF ok THEN [cachedFor EXCEPT !.userRole = refresh[r].address] ELSE cachedFor

ActionsCachedBy(l) ==
  cachedFor' = IF load'[l].pc = "idle"
               THEN [cachedFor EXCEPT !.userActions = load[l].address]
               ELSE cachedFor

\* ---------------------------------------------------------------------
\* The records of a manufacturer: ManufacturerPanel, submitEcoAction, the
\* contract's records and loadUserActions
\* ---------------------------------------------------------------------

\* Number.prototype.toString of a number that is a multiple of
\* 10^-FloatDigits: "1", "10", "0.05"
NumberToString(v) ==
  IF v % Pow10(FloatDigits) = 0
  THEN IntToText(v \div Pow10(FloatDigits))
  ELSE IntToText(v \div Pow10(FloatDigits)) \o <<".">>
         \o StripZeros(Padded(v % Pow10(FloatDigits), FloatDigits))

\* Number(x) of a uint256 the contract returns
NumberOfUint(x) == x * Pow10(FloatDigits)

\* what the two fields of the form, both required, are filled with: a
\* description, and a whole number or a number with a fraction
Descriptions == {"solar"}

ReductionInputs == {t \in AmountInputs : 0 < t.num /\ t.num < 10}

VARIABLES
  ledger,        \* the records the contract holds for the session address
  entered,       \* for each record, the number its manufacturer entered
  formData,      \* the form of ManufacturerPanel
  submitting,    \* the run of handleSubmit and submitEcoAction
  listing,       \* the runs of loadUserActions
  verification   \* the verification that is followed

ledgerVars == <<ledger, entered, formData, submitting, listing, verification>>

EmptyForm == [description |-> "", reductionAmount |-> << >>]

NotSubmitting == [pc |-> "idle", description |-> "", reductionAmount |-> 0, wei |-> 0,
                  awaits |-> 0]

\* fresh: the run was invoked after the verification
IdleListing == [pc |-> "idle", actionId |-> 0, actions |-> << >>, fresh |-> FALSE]

NoVerification == [actionId |-> 0, verified |-> FALSE, before |-> << >>, refreshed |-> FALSE]

\* what the panel, submitEcoAction and loadUserActions leave alone
ledgerFrame == <<relayVars, clientVars, chainId, contract, userRole, allUsers, hookDirty,
                 chainRoles, chainActions, refresh, load, write, roleChanges, profile>>

\* the session of a manufacturer on Sepolia, whose dashboard renders
\* ManufacturerPanel: the wallet is connected, useContract has set the
\* contract and checkUserRole the role
ManufacturerSession ==
  /\ provider = TRUE /\ address = AddrChecksum[WalletAccount] /\ isConnected = TRUE
  /\ chainId = SEPOLIA
  /\ contract = TRUE
  /\ userRole = [NoRoles EXCEPT !.isManufacturer = TRUE]
  /\ chainRoles = userRole

LedgerAbsent ==
  /\ ledger = << >>
  /\ entered = << >>
  /\ formData = EmptyForm
  /\ submitting = NotSubmitting
  /\ listing = [l \in Loads |-> IdleListing]
  /\ verification = NoVerification

\* submitEcoAction of the contract, as the specification describes it: the
\* action is recorded with the amount it was given and verified = false
Recorded(description, reductionAmount) ==
  [description |-> description, reductionAmount |-> reductionAmount, verified |-> FALSE]

\* verifyAction of the contract, as the specification describes it: the
\* verified flag of the record flips to true
Verified(records, i) == [records EXCEPT ![i].verified = TRUE]

\* the object loadUserActions pushes for a record, with verified left false
LoadedActionUnverified(action) ==
  [description |-> action.description,
   reductionAmount |-> NumberOfUint(action.reductionAmount),
   verified |-> FALSE]

\* the object loadUserActions pushes for a record of the contract
LoadedAction(action) ==
  [description |-> action.description,
   reductionAmount |-> NumberOfUint(action.reductionAmount),
   verified |-> action.verified]

\* loadUserActions is invoked and runs up to its first lookup
StartListing(runs) ==
  LET l == CHOOSE k \in Loads :
             runs[k].pc = "idle" /\ \A j \in Loads : runs[j].pc = "idle" => k <= j
  IN  [runs EXCEPT ![l] = [IdleListing EXCEPT !.pc = "probing",
                                              !.fresh = verification.verified]]

Started1(before, after) == CHOOSE l \in Loads : before[l] # after[l]

\* the two fields are filled (handleInputChange) and the form is submitted:
\* handleSubmit of ManufacturerPanel up to provider.getSigner() of
\* submitEcoAction; the button is disabled while isSubmitting
HandleSubmit(description, text) ==
  /\ userRole.isManufacturer
  /\ contract /\ provider
  /\ submitting.pc = "idle"
  /\ formData' = [description |-> description, reductionAmount |-> text]
  /\ IF description = "" \/ text = << >>
     THEN UNCHANGED submitting
     ELSE submitting' = [NotSubmitting EXCEPT
                           !.pc = "getSigner",
                           !.description = description,
                           !.reductionAmount = ParseFloat(text).v]
  /\ UNCHANGED <<ledger, entered, listing, verification, userActions, hookLoading>>

\* catch and finally of submitEcoAction, which throws on, and catch and
\* finally of handleSubmit: the form keeps its fields
SubmitFails ==
  /\ submitting' = NotSubmitting
  /\ hookLoading' = FALSE
  /\ UNCHANGED formData

\* getSigner settles, setLoading(true), and then the call of the contract's
\* submitEcoAction with ethers.parseEther(reductionAmount.toString()); ok:
\* the signer is there and the wallet sends the transaction
SubmitSent(ok) ==
  /\ submitting.pc = "getSigner"
  /\ LET parsed == ParseEther(NumberToString(submitting.reductionAmount)) IN
       IF ok /\ parsed.ok
       THEN /\ submitting' = [submitting EXCEPT !.pc = "wait", !.wei = parsed.wei]
            /\ hookLoading' = TRUE
            /\ UNCHANGED formData
       ELSE SubmitFails
  /\ UNCHANGED <<ledger, entered, listing, verification, userActions>>

\* await tx.wait(): the contract has recorded the action, and
\* loadUserActions is awaited
SubmitMined(ok) ==
  /\ submitting.pc = "wait"
  /\ IF ok
     THEN /\ Len(ledger) < MaxActions
          /\ \E l \in Loads : listing[l].pc = "idle"
          /\ ledger' = Append(ledger, Recorded(submitting.description, submitting.wei))
          /\ entered' = Append(entered, submitting.reductionAmount)
          /\ listing' = StartListing(listing)
          /\ submitting' = [submitting EXCEPT !.pc = "refetch",
                                              !.awaits = Started1(listing, listing')]
          /\ UNCHANGED <<formData, hookLoading>>
     ELSE /\ SubmitFails
          /\ UNCHANGED <<ledger, entered, listing>>
  /\ UNCHANGED <<verification, userActions>>

\* loadUserActions has returned: setLoading(false), and handleSubmit resets
\* the form
SubmitReturns ==
  /\ submitting.pc = "refetch"
  /\ listing[submitting.awaits].pc = "idle"
  /\ submitting' = NotSubmitting
  /\ hookLoading' = FALSE
  /\ formData' = EmptyForm
  /\ UNCHANGED <<ledger, entered, listing, verification, userActions>>

\* an auditor's verifyAction(address, i - 1) is mined; one verification is
\* followed, with the list the manufacturer is shown at that moment
VerifyMined(i) ==
  /\ ~verification.verified
  /\ i \in DOMAIN ledger /\ ~ledger[i].verified
  /\ ledger' = Verified(ledger, i)
  /\ verification' = [actionId |-> i, verified |-> TRUE, before |-> userActions,
                      refreshed |-> FALSE]
  /\ UNCHANGED <<entered, formData, submitting, listing, userActions, hookLoading>>

\* the effect of useContract invokes loadUserActions
RefreshActions ==
  /\ contract /\ address # Null /\ userRole.isManufacturer
  /\ \E l \in Loads : listing[l].pc = "idle"
  /\ listing' = StartListing(listing)
  /\ UNCHANGED <<ledger, entered, formData, submitting, verification, userActions,
                 hookLoading>>

\* one turn of the while (true) of loadUserActions: the lookup of actionId
\* returns the record, or it throws and the loop breaks and the list is set
LookupSettles(l, fault) ==
  /\ listing[l].pc = "probing"
  /\ IF listing[l].actionId < Len(ledger) /\ ~fault
     THEN /\ listing' = [listing EXCEPT
                           ![l].actions = Append(@, LoadedAction(ledger[listing[l].actionId + 1])),
                           ![l].actionId = @ + 1]
          /\ UNCHANGED <<userActions, verification>>
     ELSE /\ listing' = [listing EXCEPT ![l] = IdleListing]
          /\ userActions' = listing[l].actions
          /\ verification' =
               IF listing[l].fresh /\ ~(listing[l].actionId < Len(ledger))
               THEN [verification EXCEPT !.refreshed = TRUE]
               ELSE verification
  /\ UNCHANGED <<ledger, entered, formData, submitting, hookLoading>>

\* the state of the pages and utilities that the relay, the transfer
\* component and the dashboard leave alone
restVars == <<validatorVars, modalVars, typewriterVars, walletVars, accountVars, ledgerVars>>

restButValidator == <<modalVars, typewriterVars, walletVars, accountVars, ledgerVars>>

restButModal == <<validatorVars, typewriterVars, walletVars, accountVars, ledgerVars>>

restButTypewriter == <<validatorVars, modalVars, walletVars, accountVars, ledgerVars>>

restButWallet == <<validatorVars, modalVars, typewriterVars, accountVars, ledgerVars>>

restButAccount == <<validatorVars, modalVars, typewriterVars, walletVars, ledgerVars>>

restButLedger == <<validatorVars, modalVars, typewriterVars, walletVars, accountVars>>

RestAbsent ==
  /\ ValidatorAbsent
  /\ ModalAbsent
  /\ TypewriterAbsent
  /\ WalletAbsent
  /\ AccountAbsent
  /\ LedgerAbsent

RestAbsentButModal ==
  /\ ValidatorAbsent
  /\ TypewriterAbsent
  /\ WalletAbsent
  /\ AccountAbsent
  /\ LedgerAbsent

RestAbsentButTypewriter ==
  /\ ValidatorAbsent
  /\ ModalAbsent
  /\ WalletAbsent
  /\ AccountAbsent
  /\ LedgerAbsent

RestAbsentButWallet ==
  /\ ValidatorAbsent
  /\ ModalAbsent
  /\ TypewriterAbsent
  /\ AccountAbsent
  /\ LedgerAbsent

RestAbsentButAccount ==
  /\ ValidatorAbsent
  /\ ModalAbsent
  /\ TypewriterAbsent
  /\ WalletAbsent
  /\ LedgerAbsent

RestAbsentButLedger ==
  /\ ValidatorAbsent
  /\ ModalAbsent
  /\ TypewriterAbsent
  /\ WalletAbsent
  /\ AccountAbsent

vars == <<relayVars, clientVars, appVars, restVars>>

\* Spec: the relay alone, with every request body of Bodies
Init == RelayInit /\ ClientAbsent /\ AppAbsent /\ RestAbsent

Next ==
  \/ Tick /\ UNCHANGED <<clientVars, appVars, restVars>>
  \/ \E h \in Handlers, b \in Bodies : Receive(h, "POST", b) /\ UNCHANGED <<clientVars, appVars, restVars>>
  \/ \E h \in Handlers : Receive(h, "GET", Sample) /\ UNCHANGED <<clientVars, appVars, restVars>>
  \/ \E h \in Handlers, ok \in BOOLEAN : NonceRead(h, ok) /\ UNCHANGED <<clientVars, appVars, restVars>>
  \/ \E h \in Handlers, e \in ThrownErrors : SendThrows(h, e) /\ UNCHANGED <<clientVars, appVars, restVars>>
  \/ \E h \in Handlers : Send(h) /\ UNCHANGED <<clientVars, appVars, restVars>>
  \/ \E h \in Handlers, ok \in BOOLEAN : Mine(h, ok) /\ UNCHANGED <<clientVars, appVars, restVars>>
  \/ \E h \in Handlers : WaitResolves(h) /\ UNCHANGED <<clientVars, appVars, restVars>>
  \/ \E h \in Handlers, e \in ThrownErrors : WaitThrows(h, e) /\ UNCHANGED <<clientVars, appVars, restVars>>

Spec == Init /\ [][Next]_vars

\* ClientSpec: a component, the wallet and the relay handler it posts to
ClientSpecInit == RelayInit /\ impl = "handler" /\ ClientInit /\ AppAbsent /\ RestAbsent

ClientNext ==
  \/ \E r \in RecipientInputs : TypeRecipient(r) /\ UNCHANGED <<relayVars, appVars, restVars>>
  \/ \E t \in AmountInputs : TypeAmount(t.text) /\ UNCHANGED <<relayVars, appVars, restVars>>
  \/ \E p \in BOOLEAN, a \in {Null, AddrChecksum[WalletAccount]} :
        WalletSession(p, a) /\ UNCHANGED <<relayVars, appVars, restVars>>
  \/ \E b \in BalanceChoices : FetchTokenBalance(b) /\ UNCHANGED <<relayVars, appVars, restVars>>
  \/ HandleGaslessTransfer /\ UNCHANGED <<relayVars, appVars, restVars>>
  \/ \E ok \in BOOLEAN : NonceSettles(ok) /\ UNCHANGED <<relayVars, appVars, restVars>>
  \/ \E ok \in BOOLEAN : SignerSettles(ok) /\ UNCHANGED <<relayVars, appVars, restVars>>
  \/ \E ok \in BOOLEAN : NetworkSettles(ok) /\ UNCHANGED <<relayVars, appVars, restVars>>
  \/ \E ok \in BOOLEAN, splitOk \in BOOLEAN : SignSettles(ok, splitOk) /\ UNCHANGED <<relayVars, appVars, restVars>>
  \/ \E h \in Handlers : PostArrives(h) /\ UNCHANGED <<appVars, restVars>>
  \/ FetchRejects /\ UNCHANGED <<relayVars, appVars, restVars>>
  \/ ResponseSettles /\ UNCHANGED <<relayVars, appVars, restVars>>
  \/ \E ok \in BOOLEAN, b \in BalanceChoices : BalanceSettles(ok, b) /\ UNCHANGED <<relayVars, appVars, restVars>>
  \/ \E h \in Handlers, ok \in BOOLEAN : NonceRead(h, ok) /\ UNCHANGED <<clientVars, appVars, restVars>>
  \/ \E h \in Handlers, e \in ClientFaults : SendThrows(h, e) /\ UNCHANGED <<clientVars, appVars, restVars>>
  \/ \E h \in Handlers : Send(h) /\ UNCHANGED <<clientVars, appVars, restVars>>
  \/ \E h \in Handlers, ok \in BOOLEAN : Mine(h, ok) /\ UNCHANGED <<clientVars, appVars, restVars>>
  \/ \E h \in Handlers : WaitResolves(h) /\ UNCHANGED <<clientVars, appVars, restVars>>
  \/ \E h \in Handlers, e \in ClientFaults : WaitThrows(h, e) /\ UNCHANGED <<clientVars, appVars, restVars>>

ClientSpec == ClientSpecInit /\ [][ClientNext]_vars

\* RoleSpec: the wallet session of App, the two effects, the runs of
\* checkUserRole, and the roles of the session address changing on the chain
\* while the dashboard is open; the address holds no records
RoleInit == RelayInit /\ impl = "handler" /\ ClientAbsent /\ AppMounted /\ chainActions = 0 /\ RestAbsent

RoleNext ==
  \/ \E c \in {SEPOLIA, OTHER_CHAIN} : CheckConnection(c) /\ UNCHANGED <<relayVars, transferVars, restVars>>
  \/ Disconnect /\ UNCHANGED <<relayVars, transferVars, restVars>>
  \/ UseContractEffect /\ UNCHANGED <<relayVars, transferVars, restVars>>
  \/ AppEffect /\ UNCHANGED <<relayVars, transferVars, restVars>>
  \/ \E r \in Refreshes, ok \in BOOLEAN : RoleIdsSettle(r, ok) /\ UNCHANGED <<relayVars, transferVars, restVars>>
  \/ \E r \in Refreshes, ok \in BOOLEAN : HasRoleSettles(r, ok) /\ UNCHANGED <<relayVars, transferVars, restVars>>
  \/ \E r \in Refreshes, ok \in BOOLEAN : SetUserRole(r, ok) /\ UNCHANGED <<relayVars, transferVars, restVars>>
  \/ \E l \in Loads, fault \in BOOLEAN :
        ManufacturerActionsSettles(l, fault) /\ UNCHANGED <<relayVars, transferVars, restVars>>
  \/ \E flag \in {"isManufacturer", "isAuditor"}, value \in BOOLEAN :
        RoleChangesOnChain(flag, value) /\ UNCHANGED <<relayVars, transferVars, restVars>>

RoleSpec == RoleInit /\ [][RoleNext]_vars

\* ActionSpec: a session on the expected chain whose roles stay as they are
\* on the chain, the loads of the action list and the writes of the panels
ActionInit == RelayInit /\ impl = "handler" /\ ClientAbsent /\ AppMounted /\ RestAbsent

ActionNext ==
  \/ CheckConnection(SEPOLIA) /\ UNCHANGED <<relayVars, transferVars, restVars>>
  \/ UseContractEffect /\ UNCHANGED <<relayVars, transferVars, restVars>>
  \/ AppEffect /\ UNCHANGED <<relayVars, transferVars, restVars>>
  \/ \E r \in Refreshes, ok \in BOOLEAN : RoleIdsSettle(r, ok) /\ UNCHANGED <<relayVars, transferVars, restVars>>
  \/ \E r \in Refreshes, ok \in BOOLEAN : HasRoleSettles(r, ok) /\ UNCHANGED <<relayVars, transferVars, restVars>>
  \/ \E r \in Refreshes, ok \in BOOLEAN : SetUserRole(r, ok) /\ UNCHANGED <<relayVars, transferVars, restVars>>
  \/ \E l \in Loads, fault \in BOOLEAN :
        ManufacturerActionsSettles(l, fault) /\ UNCHANGED <<relayVars, transferVars, restVars>>
  \/ \E op \in WriteOps : InvokeWrite(op) /\ UNCHANGED <<relayVars, transferVars, restVars>>
  \/ \E ok \in BOOLEAN : GetSignerSettles(ok) /\ UNCHANGED <<relayVars, transferVars, restVars>>
  \/ \E ok \in BOOLEAN : TransactionSent(ok) /\ UNCHANGED <<relayVars, transferVars, restVars>>
  \/ \E ok \in BOOLEAN : TransactionMined(ok) /\ UNCHANGED <<relayVars, transferVars, restVars>>
  \/ Refetch /\ UNCHANGED <<relayVars, transferVars, restVars>>

ActionSpec == ActionInit /\ [][ActionNext]_vars

\* LoadSpec: a session whose address holds any number of records, the loads
\* of the action list by useContract and the loads of EcoProfile
LoadInit == RelayInit /\ impl = "handler" /\ ClientAbsent /\ AppMounted /\ RestAbsent

LoadNext ==
  \/ CheckConnection(SEPOLIA) /\ UNCHANGED <<relayVars, transferVars, restVars>>
  \/ Disconnect /\ UNCHANGED <<relayVars, transferVars, restVars>>
  \/ UseContractEffect /\ UNCHANGED <<relayVars, transferVars, restVars>>
  \/ AppEffect /\ UNCHANGED <<relayVars, transferVars, restVars>>
  \/ \E r \in Refreshes, ok \in BOOLEAN : RoleIdsSettle(r, ok) /\ UNCHANGED <<relayVars, transferVars, restVars>>
  \/ \E r \in Refreshes, ok \in BOOLEAN : HasRoleSettles(r, ok) /\ UNCHANGED <<relayVars, transferVars, restVars>>
  \/ \E r \in Refreshes, ok \in BOOLEAN : SetUserRole(r, ok) /\ UNCHANGED <<relayVars, transferVars, restVars>>
  \/ \E l \in Loads, fault \in BOOLEAN :
        ManufacturerActionsSettles(l, fault) /\ UNCHANGED <<relayVars, transferVars, restVars>>
  \/ FetchProfileData /\ UNCHANGED <<relayVars, transferVars, restVars>>
  \/ \E ok \in BOOLEAN : BalanceOfSettles(ok) /\ UNCHANGED <<relayVars, transferVars, restVars>>
  \/ \E fault \in BOOLEAN : ProfileActionSettles(fault) /\ UNCHANGED <<relayVars, transferVars, restVars>>

LoadSpec == LoadInit /\ [][LoadNext]_vars

\* ValidateSpec: validateGaslessTransferData applied to the data of
\* ValidationInputs and to the test data, at every time of the clock
ValidateInit == RelayInit /\ impl = "handler" /\ ClientAbsent /\ AppAbsent /\ RestAbsent

ValidateNext ==
  \/ Tick /\ UNCHANGED <<clientVars, appVars, restVars>>
  \/ \E data \in ValidationInputs : Validate(data) /\ UNCHANGED <<relayVars, clientVars, appVars, restButValidator>>
  \/ ValidateTestData /\ UNCHANGED <<relayVars, clientVars, appVars, restButValidator>>

ValidateSpec == ValidateInit /\ [][ValidateNext]_vars

\* ModalSpec: the send modal of WalletConnect, with the provider and the
\* contract App passes to it, and the runs of handleSend
ModalInit == RelayInit /\ impl = "handler" /\ ClientAbsent /\ AppAbsent /\ RestAbsent

ModalNext ==
  \/ \E p \in BOOLEAN, a \in {Null, AddrChecksum[WalletAccount]}, c \in BOOLEAN :
        WalletProps(p, a, c) /\ UNCHANGED <<relayVars, restVars>>
  \/ MakeTransaction /\ UNCHANGED <<relayVars, clientVars, appVars, restButModal>>
  \/ CloseModal /\ UNCHANGED <<relayVars, clientVars, appVars, restButModal>>
  \/ \E t \in {"eco", "eth"} : SetSendType(t) /\ UNCHANGED <<relayVars, clientVars, appVars, restButModal>>
  \/ \E r \in RecipientInputs : SetRecipient(r) /\ UNCHANGED <<relayVars, clientVars, appVars, restButModal>>
  \/ \E t \in AmountInputs : SetAmount(t.text) /\ UNCHANGED <<relayVars, clientVars, appVars, restButModal>>
  \/ HandleSend /\ UNCHANGED <<relayVars, clientVars, appVars, restButModal>>
  \/ \E ok \in BOOLEAN : SendSignerSettles(ok) /\ UNCHANGED <<relayVars, clientVars, appVars, restButModal>>
  \/ \E ok \in BOOLEAN : SendSettles(ok) /\ UNCHANGED <<relayVars, clientVars, appVars, restButModal>>
  \/ \E ok \in BOOLEAN : SendWaitSettles(ok) /\ UNCHANGED <<relayVars, clientVars, appVars, restButModal>>

ModalSpec == ModalInit /\ [][ModalNext]_vars

\* TypewriterSpec: a Typewriter with each list of MessageLists.  React
\* renders when updates are queued and runs the effect when it is due, and
\* a timer that stays pending fires
TypewriterInit ==
  RelayInit /\ impl = "handler" /\ ClientAbsent /\ AppAbsent
    /\ RestAbsentButTypewriter /\ TypewriterMounted

TypewriterNext ==
  \/ TypewriterRenders /\ UNCHANGED <<relayVars, clientVars, appVars, restButTypewriter>>
  \/ TypewriterEffect /\ UNCHANGED <<relayVars, clientVars, appVars, restButTypewriter>>
  \/ TimeoutFires /\ UNCHANGED <<relayVars, clientVars, appVars, restButTypewriter>>

TypewriterSpec ==
  /\ TypewriterInit /\ [][TypewriterNext]_vars
  /\ WF_vars(TypewriterRenders /\ UNCHANGED <<relayVars, clientVars, appVars, restButTypewriter>>)
  /\ WF_vars(TypewriterEffect /\ UNCHANGED <<relayVars, clientVars, appVars, restButTypewriter>>)
  /\ WF_vars(TimeoutFires /\ UNCHANGED <<relayVars, clientVars, appVars, restButTypewriter>>)

\* WalletSpec: useWallet with the extension, whose accounts and chain change
WalletInit ==
  RelayInit /\ impl = "handler" /\ ClientAbsent /\ AppAbsent
    /\ RestAbsentButWallet /\ WalletRendered

WalletNext ==
  \/ MountEffect /\ UNCHANGED <<relayVars, componentVars, address, isConnected, chainId, dashboardVars, restButWallet>>
  \/ ClickDisconnect /\ UNCHANGED <<relayVars, componentVars, dashboardVars, restButWallet>>
  \/ \E accounts \in AccountLists : AccountsChanged(accounts) /\ UNCHANGED <<relayVars, componentVars, dashboardVars, restButWallet>>
  \/ \E c \in {SEPOLIA, OTHER_CHAIN} : ChainChanged(c) /\ UNCHANGED <<relayVars, componentVars, dashboardVars, restButWallet>>
  \/ \E k \in Checks, ok \in BOOLEAN : ListAccountsSettles(k, ok) /\ UNCHANGED <<relayVars, componentVars, dashboardVars, restButWallet>>
  \/ \E k \in Checks, ok \in BOOLEAN : CheckNetworkSettles(k, ok) /\ UNCHANGED <<relayVars, componentVars, dashboardVars, restButWallet>>
  \/ \E k \in Checks, ok \in BOOLEAN : GetBalanceSettles(k, ok) /\ UNCHANGED <<relayVars, componentVars, dashboardVars, restButWallet>>
  \/ ConnectWallet /\ UNCHANGED <<relayVars, componentVars, dashboardVars, restButWallet>>
  \/ \E ok \in BOOLEAN : RequestAccountsSettles(ok) /\ UNCHANGED <<relayVars, componentVars, dashboardVars, restButWallet>>
  \/ \E ok \in BOOLEAN : ConnectNetworkSettles(ok) /\ UNCHANGED <<relayVars, componentVars, dashboardVars, restButWallet>>
  \/ \E ok \in BOOLEAN : SwitchSettles(ok) /\ UNCHANGED <<relayVars, componentVars, dashboardVars, restButWallet>>

WalletSpec == WalletInit /\ [][WalletNext]_vars

\* AccountSpec: the dashboard with a wallet whose account changes between
\* two accounts, the first of which is a manufacturer
AccountInit ==
  RelayInit /\ impl = "handler" /\ ClientAbsent /\ AppMounted /\ RestAbsent
    /\ chainRoles.isManufacturer /\ ~chainRoles.isAdmin

AccountNext ==
  \/ \E a \in Accounts : CheckConnectionAs(a, SEPOLIA) /\ UNCHANGED <<relayVars, transferVars, restVars>>
  \/ Disconnect /\ UNCHANGED <<relayVars, transferVars, restVars>>
  \/ UseContractEffect /\ UNCHANGED <<relayVars, transferVars, restVars>>
  \/ AppEffect /\ UNCHANGED <<relayVars, transferVars, restVars>>
  \/ \E r \in Refreshes, ok \in BOOLEAN : RoleIdsSettle(r, ok) /\ UNCHANGED <<relayVars, transferVars, restVars>>
  \/ \E r \in Refreshes, ok \in BOOLEAN : HasRoleSettles(r, ok) /\ UNCHANGED <<relayVars, transferVars, restVars>>
  \/ \E r \in Refreshes, ok \in BOOLEAN :
        SetUserRole(r, ok) /\ RoleCachedBy(r, ok) /\ UNCHANGED <<relayVars, transferVars, restButAccount>>
  \/ \E l \in Loads, fault \in BOOLEAN :
        ManufacturerActionsSettles(l, fault) /\ ActionsCachedBy(l) /\ UNCHANGED <<relayVars, transferVars, restButAccount>>

AccountSpec == AccountInit /\ [][AccountNext]_vars

\* LedgerSpec: a manufacturer's session that submits actions and loads its
\* list, and an auditor's verification of one of the records
LedgerInit ==
  /\ RelayInit /\ impl = "handler"
  /\ variant = "EcoGaslessTransfer" /\ ethChain = SEPOLIA
  /\ recipientAddress = "" /\ amount = << >>
  /\ tokenBalance = <<"0">> /\ cachedWei = 0
  /\ loading = FALSE /\ transferHistory = << >>
  /\ cpc = "idle" /\ attempts = 0 /\ cur = NoAttempt /\ clicks = 0
  /\ ManufacturerSession
  /\ userActions = << >>
  /\ allUsers = NoUsers
  /\ hookLoading = FALSE /\ hookDirty = FALSE
  /\ chainActions = 0
  /\ refresh = [r \in Refreshes |-> IdleRefresh]
  /\ load = [l \in Loads |-> IdleLoad]
  /\ write = IdleWrite
  /\ roleChanges = 0
  /\ profile = IdleProfile(<< >>)
  /\ RestAbsent

LedgerNext ==
  \/ \E d \in Descriptions, t \in ReductionInputs :
        HandleSubmit(d, t.text) /\ UNCHANGED <<ledgerFrame, restButLedger>>
  \/ \E ok \in BOOLEAN : SubmitSent(ok) /\ UNCHANGED <<ledgerFrame, restButLedger>>
  \/ \E ok \in BOOLEAN : SubmitMined(ok) /\ UNCHANGED <<ledgerFrame, restButLedger>>
  \/ SubmitReturns /\ UNCHANGED <<ledgerFrame, restButLedger>>
  \/ \E i \in 1 .. MaxActions : VerifyMined(i) /\ UNCHANGED <<ledgerFrame, restButLedger>>
  \/ RefreshActions /\ UNCHANGED <<ledgerFrame, restButLedger>>
  \/ \E l \in Loads, fault \in BOOLEAN : LookupSettles(l, fault) /\ UNCHANGED <<ledgerFrame, restButLedger>>

LedgerSpec == LedgerInit /\ [][LedgerNext]_vars

(***************************************************************************)
(* Properties of the relay, checked under Spec.                            *)
(***************************************************************************)
\* the checks of the relay in the order the specification gives them, and
\* the two steps after them
AllChecks == <<"fields", "address", "deadline", "signature", "nonce">>

AllSteps == AllChecks \o <<"sent", "confirmed">>

IsPrefix(s, t) == Len(s) <= Len(t) /\ s = SubSeq(t, 1, Len(s))

FieldNames == {"from", "to", "amount", "nonce", "deadline", "signature"}

\* the signature is one by the account that body.from names, under the
\* relay's domain and types, over exactly the five values of the body
SignedByFrom(body) ==
  /\ body.signature.t \in {"sig", "vrs"}
  /\ body.from.t = "string" /\ body.from.s \in AddressStrings
  /\ body.to.t = "string"
  /\ \A f \in {"amount", "nonce", "deadline"} : body[f].t \in {"number", "numstr"}
  /\ body.signature.signer = AccountOf(body.from.s)
  /\ body.signature.domain = RELAY_DOMAIN
  /\ body.signature.types = TYPES
  /\ body.signature.msg = [from |-> ToLowerCase(body.from.s), to |-> ToLowerCase(body.to.s),
                           amount |-> body.amount.n, nonce |-> body.nonce.n,
                           deadline |-> body.deadline.n]

\* the one response of an invocation that has ended
Answer(h) == hresp[h][1]

\* C1: the relay calls transferWithSig for a request only after that request
\* has passed, in this order, the required-fields, address-format, deadline,
\* signature and nonce checks; a request that fails one of them is answered
\* with an error and nothing is submitted for it.
C1_ChecksBeforeSubmission ==
  \A h \in Handlers :
    hreq[h] # NoRequest =>
      LET body == hreq[h].body
          passed == Len(hchecks[h])
      IN  /\ IsPrefix(hchecks[h], AllSteps)
          /\ passed >= 1 => \A f \in FieldNames : body[f] # Undefined
          /\ passed >= 2 => /\ body.from.t = "string" /\ body.from.s \in AddressStrings
                            /\ body.to.t = "string" /\ body.to.s \in AddressStrings
          /\ passed >= 3 => body.deadline.n >= htime[h]
          /\ passed >= 4 => SignedByFrom(body)
          /\ passed >= 5 => body.nonce = Num(hnonce[h])
          /\ hcalled[h] => passed >= 5
          /\ htx[h] # "none" => hcalled[h]
          /\ (hpc[h] = "done" /\ passed < 5) =>
               /\ ~hcalled[h] /\ htx[h] = "none"
               /\ Len(hresp[h]) = 1
               /\ Answer(h).error # "" /\ Answer(h).txHash = 0
               /\ Answer(h).success # "true"

\* a request was submitted after the five checks, and another was refused
C1_Witness ==
  \E h, g \in Handlers :
    /\ hcalled[h] /\ SubSeq(hchecks[h], 1, 5) = AllChecks
    /\ hpc[g] = "done" /\ hchecks[g] = <<"fields", "address">> /\ ~hcalled[g]

\* C2: the relay never submits a transfer unless the signer recovered from
\* the signature over exactly {from, to, amount, nonce, deadline} equals
\* from, letter case ignored; a signature by another account or over other
\* values is rejected and leads to no on-chain call, and a signature of from
\* itself is never refused as invalid, in whichever case from is written.
C2_OnlySignedByFrom ==
  \A h \in Handlers :
    hreq[h] # NoRequest =>
      LET body == hreq[h].body IN
        /\ hcalled[h] => SignedByFrom(body)
        /\ (Len(hchecks[h]) >= 3 /\ ~SignedByFrom(body)) =>
             /\ hpc[h] = "done" /\ ~hcalled[h] /\ htx[h] = "none"
             /\ Answer(h).error # "" /\ Answer(h).success # "true"
        /\ (Len(hchecks[h]) >= 3 /\ SignedByFrom(body)) =>
             (hpc[h] = "done" => Answer(h).error # "Invalid signature")

\* a request whose from is written with capitals was submitted, and one
\* signed by the other account was refused
C2_Witness ==
  \E h, g \in Handlers :
    /\ hcalled[h] /\ hreq[h].body.from.s = AddrChecksum["a"]
    /\ hpc[g] = "done" /\ hchecks[g] = <<"fields", "address", "deadline">>
    /\ hreq[g].body.signature.t = "sig" /\ hreq[g].body.signature.signer = "b"
    /\ hreq[g].body.from.s = AddrLower["a"]
    /\ Answer(g).error = "Invalid signature"

\* two requests of the same account with the same nonce
SameFromAndNonce(h, g) ==
  /\ hreq[h] # NoRequest /\ hreq[g] # NoRequest
  /\ hreq[h].method = "POST" /\ hreq[g].method = "POST"
  /\ IsAddress(hreq[h].body.from) /\ IsAddress(hreq[g].body.from)
  /\ AccountOf(hreq[h].body.from.s) = AccountOf(hreq[g].body.from.s)
  /\ hreq[h].body.nonce # Undefined
  /\ hreq[h].body.nonce = hreq[g].body.nonce

\* C3 as stated: of two requests with the same from and nonce, the one that
\* the relay receives after the other has been accepted on-chain is rejected
\* with 'Invalid nonce' and is not submitted.
C3_AsStated ==
  \A h, g \in Handlers :
    (h # g /\ SameFromAndNonce(h, g) /\ h \in hbefore[g] /\ hpc[g] = "done") =>
      /\ ~hcalled[g]
      /\ Answer(g).error = "Invalid nonce"

\* C3: of two requests with the same from and nonce, the one whose handling
\* begins or whose nonce is read after the other has been accepted on-chain
\* is never submitted; it is answered with 'Invalid nonce' when it passes the
\* earlier checks and its nonce read succeeds.
C3_ReplayRefused ==
  \A h, g \in Handlers :
    (h # g /\ SameFromAndNonce(h, g) /\ h \in (hbefore[g] \cup hprior[g])) =>
      /\ ~hcalled[g] /\ htx[g] = "none"
      /\ hnonce[g] # -1 => (hpc[g] = "done" /\ Answer(g).error = "Invalid nonce")

\* the replay of an accepted request was answered with 'Invalid nonce'
C3_Witness ==
  \E h, g \in Handlers :
    /\ h # g /\ SameFromAndNonce(h, g) /\ h \in hbefore[g]
    /\ hreq[h].body = hreq[g].body
    /\ hpc[g] = "done" /\ Answer(g).error = "Invalid nonce"

\* C5: a request whose deadline is one second before the relay's time at the
\* deadline check is rejected with 'Transfer deadline has passed'; one whose
\* deadline is one second after it passes the deadline check.
C5_DeadlineBoundary ==
  \A h \in Handlers :
    (hreq[h] # NoRequest /\ Len(hchecks[h]) >= 2) =>
      LET deadline == hreq[h].body.deadline.n IN
        /\ deadline = htime[h] - 1 =>
             /\ hpc[h] = "done" /\ ~hcalled[h]
             /\ hchecks[h] = <<"fields", "address">>
             /\ Answer(h).error = "Transfer deadline has passed"
        /\ deadline = htime[h] + 1 =>
             /\ Len(hchecks[h]) >= 3
             /\ hpc[h] = "done" => Answer(h).error # "Transfer deadline has passed"

\* both boundary requests have been handled
C5_Witness ==
  \E h, g \in Handlers :
    /\ Len(hchecks[h]) >= 2 /\ hreq[h].body.deadline.n = htime[h] - 1
    /\ Answer(h).error = "Transfer deadline has passed"
    /\ Len(hchecks[g]) >= 3 /\ hreq[g].body.deadline.n = htime[g] + 1

\* C6 as stated: every request the relay submits has a deadline strictly
\* later than the relay's time at the deadline check.
C6_AsStated ==
  \A h \in Handlers : hcalled[h] => hreq[h].body.deadline.n > htime[h]

\* C6: every request the relay submits has a deadline that is not earlier
\* than the relay's time at the deadline check.
C6_DeadlineNotPassed ==
  \A h \in Handlers : hcalled[h] => hreq[h].body.deadline.n >= htime[h]

\* a request was submitted whose deadline is the second of its check
C6_Witness ==
  \E h \in Handlers : hcalled[h] /\ hreq[h].body.deadline.n = htime[h]

C4_ClientSignsAsRelayVerifies ==
  /\ cur.domain # Undefined =>
       /\ cur.domain = RELAY_DOMAIN
       /\ GetTypes(variant) = TYPES
  /\ cur.signature # NoSignature =>
       ToLowerCase(VerifyTypedData(RELAY_DOMAIN, TYPES, cur.request, cur.signature))
         = ToLowerCase(cur.request.from.s)

\* the status of the entry of attempt id, "none" when there is no entry
StatusOf(history, id) ==
  IF \E i \in DOMAIN history : history[i].id = id
  THEN history[CHOOSE i \in DOMAIN history : history[i].id = id].status
  ELSE "none"

C8_Stages ==
  /\ cpc = "idle" => (~loading /\ cur = NoAttempt)
  /\ cpc = "nonce" => cur.steps = << >>
  /\ cpc \in {"signer", "network", "sign"} => cur.steps = <<"build">>
  /\ cpc \in {"post", "response", "balance"} => cur.steps = <<"build", "sign", "relay">>
  /\ \A i, j \in DOMAIN transferHistory :
       transferHistory[i].id = transferHistory[j].id => i = j
  /\ \A i \in DOMAIN transferHistory :
       LET entry == transferHistory[i] IN
         /\ entry.status \in {"pending", "success", "failed"}
         /\ entry.status = "pending" <=>
              (entry.id = cur.id /\ cpc \notin {"idle", "balance"})
         /\ entry.status = "success" => entry.txHash # 0
  /\ cpc # "idle" => StatusOf(transferHistory, cur.id) \in {"pending", "success"}
  /\ cpc = "balance" <=> (cur # NoAttempt /\ StatusOf(transferHistory, cur.id) = "success")

C8_TerminalStays ==
  \A i \in DOMAIN transferHistory :
    transferHistory[i].status \in {"success", "failed"} =>
      StatusOf(transferHistory', transferHistory[i].id) = transferHistory[i].status

\* C8: an attempt runs build, sign, relay in that order, none skipped or
\* repeated; its history entry is pending while the attempt runs and is
\* exactly one of success or failed once it has settled; a terminal entry
\* keeps its status, and loading is false once the attempt has settled.
C8_AttemptLifecycle == [](C8_Stages) /\ [][C8_TerminalStays]_vars

\* two attempts have settled, one as success and one as failed
C8_Witness ==
  /\ cpc = "idle" /\ ~loading
  /\ Len(transferHistory) = 2
  /\ transferHistory[1].status = "failed"
  /\ transferHistory[2].status = "success"

\* the number the amount field denotes lies in (0, cached balance]
AmountInRange ==
  LET m == CHOOSE x \in AmountInputs : x.text = amount IN
    /\ m.number
    /\ m.num > 0
    /\ m.num * Pow10(WeiDecimals) <= cachedWei * m.den

InvalidForTransfer ==
  \/ ~isConnected \/ address = Null
  \/ recipientAddress \notin AddressStrings
  \/ ~AmountInRange

C10_NonceFromContract ==
  cur.request # NoTransferRequest =>
    /\ cur.nonceRead = "ok" => cur.request.nonce = Num(cur.readValue)
    /\ cur.nonceFrom = "time" => cur.nonceRead = "failed"

\* the error recorded on the entry of attempt id
ErrorOf(history, id) ==
  history[CHOOSE i \in DOMAIN history : history[i].id = id].error

\* C11: when the relay answers a submission of the client with a status
\* outside 2xx and the body {error: s}, the attempt ends as failed and the
\* error on its history entry is the relay's string s.
C11_RelayErrorRecorded ==
  [][(ResponseSettles /\ Answer(cur.h).status \notin 200 .. 299) =>
       /\ StatusOf(transferHistory', cur.id) = "failed"
       /\ ErrorOf(transferHistory', cur.id) = Answer(cur.h).error]_vars

Count(effects, e) == Cardinality({i \in DOMAIN effects : effects[i] = e})

C13_AtMostOnce ==
  /\ \A e \in {"nonces", "signTypedData", "post"} : Count(cur.effects, e) <= 1
  /\ cpc = "idle" => cur = NoAttempt
  /\ cur.request # NoTransferRequest => Count(cur.effects, "nonces") = 1

C13_OnlyByInvocation ==
  (cpc = "idle" /\ cur' # cur) => clicks' # clicks

\* C13: one invocation of handleGaslessTransfer issues at most one nonce
\* read, one signature request and one POST; once an attempt has failed
\* nothing is sent until the handler is invoked again, and the request of the
\* new attempt is built on a nonce read in that attempt.
C13_NoRetryFreshNonce == [](C13_AtMostOnce) /\ [][C13_OnlyByInvocation]_vars

\* the error strings of the eight categories the specification lists
ErrorCategories ==
  { "Missing required fields", "Invalid address format",
    "Transfer deadline has passed", "Invalid signature", "Invalid nonce",
    "Relayer has insufficient funds for gas",
    "Transaction would fail (likely insufficient token balance or approval)",
    "Transaction reverted by contract" }

\* C14: every error string the relay returns is one of the eight categories:
\* missing fields, invalid address, deadline passed, invalid signature,
\* invalid nonce, insufficient relayer funds, predicted revert, execution
\* reverted.
C14_ErrorsCategorical ==
  \A h \in Handlers :
    (hpc[h] = "done" /\ Answer(h).error # "") => Answer(h).error \in ErrorCategories

\* ---------------------------------------------------------------------
\* Claims about the dashboard
\* ---------------------------------------------------------------------

\* the indices 0, 1, ..., n - 1 in order
Indices(n) == [i \in 1 .. n |-> i - 1]

\* C15: a load of the action list looks up index 0, 1, 2, ... once each and
\* in order until the first lookup that fails, with no maximum, and then
\* sets the cached list to exactly the records of the indices before the
\* failed one; this holds of loadUserActions and of fetchProfileData
C15_ProbesUntilFirstMiss ==
  [][/\ \A l \in Loads :
          (load[l].pc = "probing" /\ load'[l].pc = "idle") =>
            /\ load[l].lookups = Indices(load[l].actionId)
            /\ userActions' = [i \in 1 .. load[l].actionId |-> ManufacturerAction(i - 1)]
     /\ (profile.pc = "probing" /\ profile'.pc = "idle") =>
            /\ profile.lookups = Indices(profile.actionId)
            /\ profile'.actions = [i \in 1 .. profile.actionId |-> ProfileAction(i - 1)]]_vars

\* both loads have read every record of an address that holds MaxActions
C15_Witness ==
  /\ chainActions = MaxActions
  /\ userActions = [i \in 1 .. MaxActions |-> ManufacturerAction(i - 1)]
  /\ profile.pc = "idle"
  /\ profile.actions = [i \in 1 .. MaxActions |-> ProfileAction(i - 1)]

\* the run r of checkUserRole ends in this step
RefreshEnds(r) == refresh[r].pc # "idle" /\ refresh'[r].pc = "idle"

\* the answers of the three membership queries of run r, the third being
\* answered in this step
Answers(r) ==
  [isManufacturer |-> refresh[r].got[1], isAuditor |-> refresh[r].got[2],
   isAdmin |-> chainRoles.isAdmin]

\* C16: the cached role flags change only in the step in which the third
\* membership query of a run of checkUserRole returns, and then all three
\* become the three answers of that run; a run that ends before its third
\* query, which is one with a failed query, leaves the flags as they were
C16_RolesSetTogether ==
  [][/\ userRole' # userRole =>
          \E r \in Refreshes :
            /\ refresh[r].pc = "isAdmin"
            /\ RefreshEnds(r)
            /\ Len(refresh[r].got) = 2
            /\ userRole' = Answers(r)
     /\ \A r \in Refreshes :
          (RefreshEnds(r) /\ refresh[r].pc # "isAdmin") => userRole' = userRole]_vars

\* a run has set the flags of an address that holds a role
C16_Witness == userRole # NoRoles /\ userRole = chainRoles

\* C17: the flags a run of checkUserRole sets are the membership of the
\* session address at one state the chain was in during the run
C17_FlagsOfOneChainState ==
  [][userRole' # userRole =>
       \E r \in Refreshes : RefreshEnds(r) /\ userRole' \in refresh[r].seen]_vars

RolePanels == {"AdminPanel", "ManufacturerPanel", "AuditorPanel"}

\* C18: in a connected session on the expected chain each role panel is
\* rendered exactly when its cached flag is set, and the placeholder exactly
\* when none is set; without a connection or on another chain no role panel
\* is rendered
C18_PanelsFollowFlags ==
  IF isConnected /\ chainId = SEPOLIA
  THEN /\ ("AdminPanel" \in View) = userRole.isAdmin
       /\ ("ManufacturerPanel" \in View) = userRole.isManufacturer
       /\ ("AuditorPanel" \in View) = userRole.isAuditor
       /\ ("NoRoleAssigned" \in View) = (userRole = NoRoles)
  ELSE View \cap RolePanels = {}

\* a connected session on the expected chain with two flags set
C18_Witness ==
  /\ isConnected /\ chainId = SEPOLIA
  /\ userRole.isAdmin /\ userRole.isAuditor /\ ~userRole.isManufacturer
  /\ View \cap RolePanels = {"AdminPanel", "AuditorPanel"}

\* on another chain, and after a disconnect, with flags still cached
C18_WitnessHidden ==
  /\ userRole # NoRoles
  /\ ~isConnected \/ chainId = OTHER_CHAIN
  /\ View = {}

\* the slice of the cache a write affects
Affected(op) ==
  CASE op \in {"submitEcoAction", "verifyAction"} -> {"actions"}
    [] OTHER -> {"users", "roles"}

\* C19: when a write has succeeded and is over, a re-fetch of every slice
\* it affects has been called since its transaction was mined
C19_WritesRefetch ==
  (write.pc = "refetch" /\ write.stage > Len(Refetches(write.op))) =>
    Affected(write.op) \subseteq {write.fetched[i] : i \in DOMAIN write.fetched}

\* C20: at most one run of checkUserRole and at most one run of
\* loadUserActions is in flight
C20_OneOfEach ==
  /\ Cardinality({r \in Refreshes : refresh[r].pc # "idle"}) <= 1
  /\ Cardinality({l \in Loads : load[l].pc # "idle"}) <= 1


\* ---------------------------------------------------------------------
\* Claims about concurrent relay invocations
\* ---------------------------------------------------------------------

\* C25: no two invocations of the relay handler have both sent a
\* transferWithSig transaction for the same from and the same nonce
C25_OneSubmissionPerNonce ==
  \A h, g \in Handlers :
    (h # g /\ SameFromAndNonce(h, g)) => ~(htx[h] # "none" /\ htx[g] # "none")


\* ---------------------------------------------------------------------
\* Claims about validateGaslessTransferData
\* ---------------------------------------------------------------------

\* C24: validateGaslessTransferData answers isValid = true exactly when its
\* list of errors is empty, and data it accepts passes the relay's
\* required-fields, address-format and deadline checks made at the same
\* time; a nonce of 0 is not reported missing
C24_ValidatorWithinRelay ==
  validation.called =>
    LET data == validation.data
        result == validation.result IN
    /\ result.isValid = (result.errors = << >>)
    /\ result.isValid =>
         /\ ~MissingRequiredFields(data)
         /\ ~InvalidAddressFormat(data)
         /\ ~DeadlineHasPassed(data.deadline, validation.currentTime)
    /\ data.nonce = Num(0) =>
         \A i \in DOMAIN result.errors : result.errors[i] # "Missing 'nonce'"

\* data with nonce 0 and a deadline at the current second was accepted
C24_Witness ==
  /\ validation.called
  /\ validation.result.isValid
  /\ validation.data.nonce = Num(0)
  /\ validation.data.deadline = Num(validation.currentTime)

\* ---------------------------------------------------------------------
\* Properties of the send modal, checked under ModalSpec.
\* ---------------------------------------------------------------------

\* C29: txStatus is 'pending' only while a send is in flight: whenever no
\* run of handleSend awaits and isSending is false, txStatus is 'idle',
\* 'success' or 'error'
C29_PendingOnlyInFlight ==
  (sending.pc = "idle" /\ ~modal.isSending) => modal.txStatus \in {"idle", "success", "error"}

\* ---------------------------------------------------------------------
\* Properties of the Typewriter, checked under TypewriterSpec.
\* ---------------------------------------------------------------------

\* message i of the list is the current one and is fully typed
FullyTyped(i) ==
  i \in DOMAIN messages /\ currentMessage = i - 1 /\ displayed = messages[i]

\* message i of the list is the current one and is fully erased after its pause
FullyErased(i) ==
  i \in DOMAIN messages /\ currentMessage = i - 1 /\ displayed = << >>
    /\ phase = "erasing"

\* the message at index + 1 modulo the list length is being typed from nothing
FollowedByNext(i) ==
  i \in DOMAIN messages /\ currentMessage = i % Len(messages) /\ displayed = << >>
    /\ phase = "typing"

\* C30: the Typewriter cycles forever: every message of the list is fully
\* typed again and again, a fully typed message is eventually fully erased,
\* and an erased message is followed by the message at index + 1 modulo the
\* list length
C30_CyclesForever ==
  \A i \in 1 .. MaxMessages :
    /\ [](i \notin DOMAIN messages) \/ []<>FullyTyped(i)
    /\ FullyTyped(i) ~> FullyErased(i)
    /\ FullyErased(i) ~> FollowedByNext(i)

\* ---------------------------------------------------------------------
\* Properties of useWallet, checked under WalletSpec.
\* ---------------------------------------------------------------------

\* connectWallet shows its success notice: the run of checkConnection it
\* awaited has returned
ConnectSucceeds == connecting = "checkConnection" /\ connecting' = "idle"

\* C21: whenever connectWallet completes with the success notice, the
\* session holds isConnected = true with an address, a balance and a chain
\* id, and isConnecting = false
C21_SuccessEstablishesSession ==
  [][ConnectSucceeds =>
       /\ isConnected' /\ ~isConnecting'
       /\ address' # Null /\ chainId' # NoChain]_vars

\* the step is one of handleAccountsChanged with accounts or of
\* handleChainChanged
ResyncEvents == {"accountsChanged", "chainChanged"}

EventWithAccounts ==
  \/ lastCall'.call = "accountsChanged" /\ Len(ethAccounts') > 0
  \/ lastCall'.call = "chainChanged"

\* the step is one of the disconnect button or of handleAccountsChanged([])
DisconnectCalled ==
  \/ lastCall'.call = "disconnect"
  \/ lastCall'.call = "accountsChanged" /\ Len(ethAccounts') = 0

\* run k, started by an event, calls setWallet in this step
Resynchronizes(k) ==
  /\ checks[k].pc = "getBalance" /\ checks[k].by \in ResyncEvents
  /\ checks'[k].pc = "idle"
  /\ lastCall' = Op("setWallet", checks[k].by)

C26_StaysCleared ==
  cleared => (~isConnected /\ address = Null /\ ~provider)

\* ---------------------------------------------------------------------
\* Properties of the dashboard's caches, checked under AccountSpec.
\* ---------------------------------------------------------------------

\* C27: while the session has an address, a cached role set or action list
\* that differs from its initial value was computed for that address
C27_CachedForCurrentAddress ==
  address # Null =>
    /\ userRole # NoRoles => cachedFor.userRole = address
    /\ userActions # << >> => cachedFor.userActions = address

\* C28: the reductionAmount held for an action after loading it from the
\* contract equals the reductionAmount the manufacturer entered when
\* submitting it, for every submitted amount
C28_LoadedEqualsEntered ==
  \A i \in DOMAIN userActions :
    i \in DOMAIN entered => userActions[i].reductionAmount = entered[i]

\* a run of loadUserActions that was invoked after the verification reads
\* past the last record and sets the list
RefreshCompletes(l) ==
  /\ listing[l].pc = "probing" /\ listing[l].fresh
  /\ listing[l].actionId >= Len(ledger)
  /\ listing'[l].pc = "idle"

\* the list shows the verified entry as verified, with the description and
\* reductionAmount it showed before, and no other entry differs
ShowsVerified(before, after, id) ==
  /\ id \in DOMAIN after /\ after[id].verified
  /\ id \in DOMAIN before =>
       /\ after[id].description = before[id].description
       /\ after[id].reductionAmount = before[id].reductionAmount
  /\ \A j \in DOMAIN before \ {id} : j \in DOMAIN after /\ after[j] = before[j]

============================================================================
